---- MODULE Spec2Model ----
(***************************************************************************)
(* Model of the bfs bucket abstraction: the S3 adapter (bfss3), the Google *)
(* Cloud Storage adapter (bfsgs) and the local file system adapter         *)
(* (bfsos).  Strings are sequences of one-character strings, so that       *)
(* prefix trimming and path cleaning are computed, not assumed.            *)
(***************************************************************************)
EXTENDS Integers, Sequences, FiniteSets, TLC

VARIABLES
    kind,       \* which adapter the bucket is: "s3", "gs" or "os"
    prefix,     \* s3/gs: config.Prefix after norm(); os: bucket.root
    kop,        \* key resolution: the last bucket operation and the backend keys it used
    objects,    \* the backend's object store: key -> content
    w,          \* the writer returned by Create
    calls,      \* writer: the finalize calls made so far, with their results
    wops,       \* number of writers created so far
    lastRm,     \* the last Remove: its name and its result
    it,         \* the iterator returned by Glob
    listing,    \* the backend listing the iterator pages through
    matcher,    \* doublestar.Match(it.pattern, name) for every name
    nexts,      \* iterator: the Next() calls made so far, with their results
    fetches,    \* iterator: number of backend listing calls issued
    closedAt,   \* iterator: fetches and Len(nexts) when Close() was first called
    race,       \* concurrent finalize: the sync.Once of the writer and the goroutines calling it
    last,       \* bucket operations: the last operation, its backend answer and its result
    rd,         \* the reader returned by Open, its transport and the Reads made
    app,        \* the last application of a helper function: its input and its output
    gen,        \* repeated Glob: how many iterators were made and how the earlier one was left
    loop,       \* Next() in steps: where the call is, the tokens sent, the calls returned
    reg         \* the scheme registry, its lock and the goroutines using it

vars == <<kind, prefix, kop, objects, w, calls, wops, lastRm,
          it, listing, matcher, nexts, fetches, closedAt, race, last, rd, app,
          gen, loop, reg>>

keyVars == <<kop>>
storeVars == <<objects, w, calls, wops, lastRm>>
iterVars == <<it, listing, matcher, nexts, fetches, closedAt>>
raceVars == <<race>>
opVars == <<last>>
readVars == <<rd>>
appVars == <<app>>
globVars == <<gen>>
loopVars == <<loop>>
regVars == <<reg>>

-----------------------------------------------------------------------------
(* Strings *)

Sep == "/"

\* strings.HasPrefix
HasPrefix(s, p) ==
    Len(p) <= Len(s) /\ SubSeq(s, 1, Len(p)) = p

\* strings.HasSuffix
HasSuffix(s, p) ==
    Len(p) <= Len(s) /\ SubSeq(s, Len(s) - Len(p) + 1, Len(s)) = p

\* strings.TrimPrefix
TrimPrefix(s, p) ==
    IF HasPrefix(s, p) THEN SubSeq(s, Len(p) + 1, Len(s)) ELSE s

\* strings.Split(s, "/"): always at least one segment
RECURSIVE Split(_)
Split(s) ==
    IF s = <<>> THEN << <<>> >>
    ELSE LET rest == Split(Tail(s)) IN
         IF Head(s) = Sep THEN << <<>> >> \o rest
         ELSE << <<Head(s)>> \o rest[1] >> \o Tail(rest)

\* strings.Join(segs, "/")
RECURSIVE JoinSep(_)
JoinSep(segs) ==
    IF segs = <<>> THEN <<>>
    ELSE IF Len(segs) = 1 THEN segs[1]
    ELSE segs[1] \o <<Sep>> \o JoinSep(Tail(segs))

Dot == <<".">>
DotDot == <<".", ".">>

\* the element stack path.Clean builds: "" and "." are dropped, ".." removes the
\* element before it, is dropped at the root and kept in front of a relative path
RECURSIVE CleanStack(_, _, _)
CleanStack(segs, stack, rooted) ==
    IF segs = <<>> THEN stack
    ELSE LET s == Head(segs) IN
         IF s = <<>> \/ s = Dot THEN CleanStack(Tail(segs), stack, rooted)
         ELSE IF s = DotDot THEN
              IF stack # <<>> /\ stack[Len(stack)] # DotDot
              THEN CleanStack(Tail(segs), SubSeq(stack, 1, Len(stack) - 1), rooted)
              ELSE IF rooted THEN CleanStack(Tail(segs), stack, rooted)
              ELSE CleanStack(Tail(segs), Append(stack, s), rooted)
         ELSE CleanStack(Tail(segs), Append(stack, s), rooted)

\* path.Clean / filepath.Clean
Clean(p) ==
    IF p = <<>> THEN Dot
    ELSE LET rooted == p[1] = Sep
             body == JoinSep(CleanStack(Split(p), <<>>, rooted))
         IN IF rooted THEN <<Sep>> \o body
            ELSE IF body = <<>> THEN Dot ELSE body

\* filepath.Join of two elements: empty elements are ignored, the result is cleaned
Join2(a, b) ==
    IF a = <<>> /\ b = <<>> THEN <<>>
    ELSE IF a = <<>> THEN Clean(b)
    ELSE IF b = <<>> THEN Clean(a)
    ELSE Clean(a \o <<Sep>> \o b)

-----------------------------------------------------------------------------
(* Namespace prefixer *)

Kinds == {"s3", "gs", "os"}

\* Config.norm: the prefix loses one leading separator and, unless empty, ends in one
norm(p) ==
    LET q == TrimPrefix(p, <<Sep>>) IN
    IF q # <<>> /\ ~HasSuffix(q, <<Sep>>) THEN q \o <<Sep>> ELSE q

\* bfsos.New: root is the cleaned directory with a trailing separator
NewRoot(root) ==
    Clean(IF root = <<>> THEN Dot ELSE root) \o <<Sep>>

\* a name that is left outside the namespace
WithoutNamespace(ns, name) ==
    name

\* internal.WithinNamespace: the name, with "", "." and ".." segments collapsed
\* as under a root, appended to the namespace
WithinNamespace(ns, name) ==
    ns \o JoinSep(CleanStack(Split(name), <<>>, TRUE))

\* bucket.withPrefix / gsBucket.withPrefix
withPrefix(pfx, name) ==
    IF pfx = <<>> THEN name ELSE WithinNamespace(pfx, name)

\* bucket.stripPrefix / gsBucket.stripPrefix
stripPrefix(pfx, name) ==
    IF pfx = <<>> THEN name
    ELSE TrimPrefix(TrimPrefix(name, pfx), <<Sep>>)

\* bfsos bucket.resolve
resolve(root, name) ==
    Join2(root, Join2(<<Sep>>, name))

\* the backend key an operation of the bucket uses for a name
KeyOf(k, pfx, name) ==
    IF k = "os" THEN resolve(pfx, name) ELSE withPrefix(pfx, name)

-----------------------------------------------------------------------------
(* Key resolution: every bucket operation applied to every short name *)

MaxNameLen == 4

Alphabet == {"a", Sep, "."}

\* every string over the alphabet of at most n characters
StrsUpTo(n) ==
    UNION {[1..m -> Alphabet] : m \in 0..n}

NameStrs == StrsUpTo(MaxNameLen)

\* the name of the S3 bucket itself
BucketName == <<"b">>

\* Config.Prefix as configured, before norm(); norm() leaves the empty and the
\* ".." segment of the last two as they are
RawPrefixes ==
    {<<>>, <<"x">>, <<Sep, "x">>, <<"x", Sep>>, <<"x", Sep, "y">>,
     <<"x", Sep, Sep>>, <<".", ".", Sep, "x">>}

\* the root passed to bfsos.New
RawRoots == {<<>>, <<Sep>>, <<Sep, "r">>, <<"r">>, <<"r", Sep>>}

\* the prefixes a bucket of kind k can hold after construction
PrefixesOf(k) ==
    IF k = "os" THEN {NewRoot(r) : r \in RawRoots}
    ELSE {norm(p) : p \in RawPrefixes}

\* S3 Copy: source := path.Join("/", b.bucket, b.withPrefix(src)), a cleaned path
\* that ".." segments of an unprefixed name can lead out of the bucket
CopySource(pfx, src) ==
    Clean(<<Sep>> \o BucketName \o <<Sep>> \o withPrefix(pfx, src))

\* S3 reads CopySource as bucket/key: the bucket is the first segment
CopySourceBucket(pfx, src) ==
    Split(TrimPrefix(CopySource(pfx, src), <<Sep>>))[1]

\* S3 reads CopySource as bucket/key: the key is what follows the first segment
CopySourceKey(pfx, src) ==
    JoinSep(Tail(Split(TrimPrefix(CopySource(pfx, src), <<Sep>>))))

\* the bucket Copy reads from: bfss3 names it in CopySource, the others read
\* from the bucket itself
SrcBucketOf(k, pfx, src) ==
    IF k = "s3" THEN CopySourceBucket(pfx, src) ELSE BucketName

\* the key Copy reads: bfss3 builds a CopySource, the others resolve the name
SrcKeyOf(k, pfx, src) ==
    IF k = "s3" THEN CopySourceKey(pfx, src) ELSE KeyOf(k, pfx, src)

NoKey == <<"?">>

KeyInit ==
    /\ kind \in Kinds
    /\ prefix \in PrefixesOf(kind)
    /\ kop = [op |-> "none", name |-> <<>>, key |-> NoKey, src |-> <<>>,
              srcBucket |-> NoKey, srcKey |-> NoKey]

\* one operation on one name, recording the backend key it addresses
KeyUse(op, name) ==
    /\ kop' = [op |-> op, name |-> name, key |-> KeyOf(kind, prefix, name),
               src |-> <<>>, srcBucket |-> NoKey, srcKey |-> NoKey]
    /\ UNCHANGED <<kind, prefix>>

\* Head: HeadObject / Object(...).Attrs / os.Stat
KeyHead ==
    /\ kop.op = "none"
    /\ \E name \in NameStrs : KeyUse("Head", name)

\* Open: GetObject / NewReader / os.Open
KeyOpen ==
    /\ kop.op = "none"
    /\ \E name \in NameStrs : KeyUse("Open", name)

\* Create followed by Commit (s3) or Close (gs, os): the key written
KeyCreate ==
    /\ kop.op = "none"
    /\ \E name \in NameStrs : KeyUse("Create", name)

\* Remove: DeleteObject / Delete / os.Remove
KeyRemove ==
    /\ kop.op = "none"
    /\ \E name \in NameStrs : KeyUse("Remove", name)

\* Copy: the key read and the key written
KeyCopy ==
    /\ kop.op = "none"
    /\ \E src \in NameStrs, dst \in NameStrs :
        /\ Len(src) + Len(dst) <= MaxNameLen
        /\ kop' = [op |-> "Copy", name |-> dst, key |-> KeyOf(kind, prefix, dst),
                   src |-> src, srcBucket |-> SrcBucketOf(kind, prefix, src),
                   srcKey |-> SrcKeyOf(kind, prefix, src)]
        /\ UNCHANGED <<kind, prefix>>

KeyNext ==
    \/ KeyHead
    \/ KeyOpen
    \/ KeyCreate
    \/ KeyRemove
    \/ KeyCopy


-----------------------------------------------------------------------------
(* Errors *)

\* an error value: what kind of Go value it is, its HTTP status, its error code
Err(t, status, code) == [t |-> t, status |-> status, code |-> code]

Nil == Err("nil", 0, "")
ErrNotFound == Err("bfs.ErrNotFound", 0, "")
CtxCanceled == Err("context.Canceled", 0, "")
ErrObjectNotExist == Err("storage.ErrObjectNotExist", 0, "")

\* awserr.RequestFailure (it is an awserr.Error too) and a plain awserr.Error
RequestFailure(status, code) == Err("awserr.RequestFailure", status, code)
AwsError(code) == Err("awserr.Error", 0, code)

\* an error of the operating system, by errno
OsError(errno) == Err("os", 0, errno)

\* any other error value
Opaque(code) == Err("error", 0, code)

\* the failures an S3 request can end in
S3Failures ==
    {RequestFailure(404, "NoSuchKey"), RequestFailure(403, "AccessDenied"),
     AwsError("RequestCanceled")}

\* the failures a Google Cloud Storage request on an existing object can end in
GsFailures == {Opaque("googleapi: 403")}

\* bfss3 normError: the type switch takes the RequestFailure case for every
\* request failure, so the error codes are looked at for plain awserr.Error only
normError(err) ==
    IF err = Nil THEN Nil
    ELSE IF err.t = "awserr.RequestFailure"
         THEN IF err.status = 404 THEN ErrNotFound ELSE err
    ELSE IF err.t = "awserr.Error"
         THEN IF err.code = "NoSuchKey" THEN ErrNotFound
              ELSE IF err.code = "RequestCanceled" THEN CtxCanceled
              ELSE err
    ELSE err

\* bfsgs normError
normErrorGs(err) ==
    IF err = ErrObjectNotExist THEN ErrNotFound ELSE err

\* os.IsNotExist
IsNotExist(err) == err.t = "os" /\ err.code = "ENOENT"

\* os.IsExist
IsExist(err) == err.t = "os" /\ err.code \in {"EEXIST", "ENOTEMPTY"}

\* bfsos normError: a missing file is the shared not-found error
normErrorOs(err) ==
    IF err # Nil /\ IsNotExist(err) THEN ErrNotFound ELSE err

-----------------------------------------------------------------------------
(* The object store behind a bucket, and what Head and Open report *)

MaxStaged == 2
MaxChunk == 2
MaxWriters == 1
MaxCalls == 2

Bytes == {0, 1}

\* the byte slices a Write is called with
Chunks ==
    UNION {[1..m -> Bytes] : m \in 1..MaxChunk}

\* the object names the store operations are called with
StoreNames == {<<"a">>}

\* the prefix of the bucket the store operations run on
StorePrefix(k) ==
    IF k = "os" THEN NewRoot(<<Sep, "r">>) ELSE norm(<<"x">>)

Has(objs, key) == key \in DOMAIN objs

Put(objs, key, content) ==
    [k \in DOMAIN objs \cup {key} |-> IF k = key THEN content ELSE objs[k]]

Del(objs, key) ==
    [k \in DOMAIN objs \ {key} |-> objs[k]]

\* what the backend answers for a missing object
MissingErr(k) ==
    IF k = "s3" THEN RequestFailure(404, "NotFound")
    ELSE IF k = "gs" THEN ErrObjectNotExist
    ELSE OsError("ENOENT")

\* the adapter's error normalisation
normOf(k, err) ==
    IF k = "s3" THEN normError(err)
    ELSE IF k = "gs" THEN normErrorGs(err)
    ELSE normErrorOs(err)

\* Head(name): the error and the size reported
HeadOf(k, pfx, objs, name) ==
    LET key == KeyOf(k, pfx, name) IN
    IF Has(objs, key) THEN [err |-> Nil, size |-> Len(objs[key])]
    ELSE [err |-> normOf(k, MissingErr(k)), size |-> 0]

\* Open(name): the error and the bytes the reader delivers
OpenOf(k, pfx, objs, name) ==
    LET key == KeyOf(k, pfx, name) IN
    IF Has(objs, key) THEN [err |-> Nil, content |-> objs[key]]
    ELSE [err |-> normOf(k, MissingErr(k)), content |-> <<>>]

-----------------------------------------------------------------------------
(* Writers *)

\* no Remove has been made since the last other operation
NoRemove ==
    [done |-> FALSE, name |-> <<>>, err |-> Nil, head |-> Nil, open |-> Nil, again |-> Nil]

NoWriter ==
    [active |-> FALSE, name |-> <<>>, absent |-> FALSE,
     staged |-> <<>>, written |-> <<>>, writesOk |-> TRUE,
     fileOpen |-> FALSE, tmp |-> FALSE, linked |-> FALSE, done |-> FALSE,
     uploads |-> 0, closes |-> 0, rms |-> 0, published |-> FALSE]

\* the writer Create returns: s3 stages into a temp file, gs into the storage
\* writer's buffer, os writes into the destination file itself
NewWriter(k, name, absent) ==
    [NoWriter EXCEPT !.active = TRUE, !.name = name, !.absent = absent,
                     !.fileOpen = TRUE, !.tmp = (k = "s3"), !.linked = (k = "os")]

\* whether the owner is through with the writer
Finished(k, wr) ==
    IF k = "s3" THEN wr.done ELSE ~wr.fileOpen

\* bfss3 / bfsgs / bfsos Create
Create(name) ==
    LET key == KeyOf(kind, prefix, name) IN
    /\ wops < MaxWriters
    /\ ~w.active \/ Finished(kind, w)
    /\ kind = "os" => ~Has(objects, key)
    /\ w' = NewWriter(kind, name, ~Has(objects, key))
    /\ objects' = IF kind = "os" THEN Put(objects, key, <<>>) ELSE objects
    /\ wops' = wops + 1
    /\ calls' = <<>>
    /\ lastRm' = NoRemove
    /\ UNCHANGED <<kind, prefix>>

\* os.File.Write / storage.Writer.Write: the bytes go to the end
FileWrite(content, data) ==
    content \o data

\* Write(chunk) delivering the first n bytes: n = Len(chunk) is a successful Write
Write(chunk, n) ==
    LET data == SubSeq(chunk, 1, n)
        key == KeyOf(kind, prefix, w.name)
    IN
    /\ w.active /\ w.fileOpen
    /\ Len(w.staged) + Len(chunk) <= MaxStaged
    /\ w' = [w EXCEPT !.staged = FileWrite(@, data),
                      !.written = IF n = Len(chunk) THEN @ \o chunk ELSE @,
                      !.writesOk = @ /\ n = Len(chunk)]
    /\ objects' = IF kind = "os" /\ w.linked
                  THEN [objects EXCEPT ![key] = FileWrite(@, data)]
                  ELSE objects
    /\ lastRm' = NoRemove
    /\ UNCHANGED <<kind, prefix, calls, wops>>

\* a gate that lets every call through
OnceRunsAlways(done) ==
    TRUE

\* sync.Once.Do(f): f runs only if no earlier Do has run
OnceRuns(done) ==
    ~done

\* a finalize that leaves the temp file behind
CleanupKeepingFile(wr) ==
    [wr EXCEPT !.done = TRUE]

\* the deferred os.Remove(fname) and the Once being marked done
Cleanup(wr) ==
    [wr EXCEPT !.rms = @ + 1, !.tmp = FALSE, !.done = TRUE]

\* an upload addressed by the bare name, without the bucket's prefix
UploadInputBareKey(pfx, wr) ==
    [key |-> wr.name, body |-> wr.staged]

\* the s3manager.UploadInput Commit builds: the prefixed key and the reopened file
UploadInput(pfx, wr) ==
    [key |-> withPrefix(pfx, wr.name), body |-> wr.staged]

\* writer.Commit with the outcomes of File.Close, os.Open and UploadWithContext;
\* the result is the writer, the store and the error returned
CommitBody(wr, objs, pfx, closeErr, openErr, upErr) ==
    IF ~OnceRuns(wr.done)
    THEN [w |-> wr, objects |-> objs, err |-> normError(CtxCanceled)]
    ELSE LET closed == [wr EXCEPT !.closes = @ + 1, !.fileOpen = FALSE]
             in == UploadInput(pfx, wr)
         IN IF closeErr # Nil
            THEN [w |-> Cleanup(closed), objects |-> objs, err |-> normError(closeErr)]
            ELSE IF openErr # Nil
            THEN [w |-> Cleanup(closed), objects |-> objs, err |-> normError(openErr)]
            ELSE [w |-> Cleanup([closed EXCEPT !.uploads = @ + 1,
                                               !.published = @ \/ upErr = Nil]),
                  objects |-> IF upErr = Nil THEN Put(objs, in.key, in.body) ELSE objs,
                  err |-> normError(upErr)]

\* a Discard that publishes the staged bytes like Commit
DiscardUploading(wr, objs, pfx, closeErr) ==
    CommitBody(wr, objs, pfx, closeErr, Nil, Nil)

\* writer.Discard with the outcome of File.Close
DiscardBody(wr, objs, pfx, closeErr) ==
    IF ~OnceRuns(wr.done)
    THEN [w |-> wr, objects |-> objs, err |-> CtxCanceled]
    ELSE [w |-> Cleanup([wr EXCEPT !.closes = @ + 1, !.fileOpen = FALSE]),
          objects |-> objs, err |-> closeErr]

\* the failures closing or reopening the temp file can end in
CloseFailures == {OsError("EIO")}
OpenFailures == {OsError("EMFILE")}

\* the record kept of a finalize call: what it returned, what the writer had done
\* by then, and what Head and Open report for the destination right after it
CallRecord(op, r) ==
    [op |-> op, err |-> r.err, uploads |-> r.w.uploads, closes |-> r.w.closes,
     rms |-> r.w.rms, head |-> HeadOf(kind, prefix, r.objects, r.w.name),
     open |-> OpenOf(kind, prefix, r.objects, r.w.name)]

Finalize(op, r) ==
    /\ w' = r.w
    /\ objects' = r.objects
    /\ calls' = Append(calls, CallRecord(op, r))
    /\ lastRm' = NoRemove
    /\ UNCHANGED <<kind, prefix, wops>>

\* bfss3 writer.Commit
Commit ==
    /\ kind = "s3" /\ w.active
    /\ Len(calls) < MaxCalls
    /\ \E closeErr \in {Nil} \cup CloseFailures, openErr \in {Nil} \cup OpenFailures,
          upErr \in {Nil} \cup S3Failures :
          Finalize("Commit", CommitBody(w, objects, prefix, closeErr, openErr, upErr))

\* bfss3 writer.Discard
Discard ==
    /\ kind = "s3" /\ w.active
    /\ Len(calls) < MaxCalls
    /\ \E closeErr \in {Nil} \cup CloseFailures :
          Finalize("Discard", DiscardBody(w, objects, prefix, closeErr))

\* bfsgs: storage.Writer.Close publishes the buffered bytes; bfsos: os.File.Close
CloseWriter ==
    LET key == KeyOf(kind, prefix, w.name) IN
    /\ kind \in {"gs", "os"} /\ w.active /\ w.fileOpen
    /\ \E err \in {Nil} \cup (IF kind = "gs" THEN GsFailures ELSE CloseFailures) :
          /\ w' = [w EXCEPT !.fileOpen = FALSE, !.closes = @ + 1,
                            !.published = (err = Nil)]
          /\ objects' = IF kind = "gs" /\ err = Nil THEN Put(objects, key, w.staged)
                        ELSE objects
    /\ lastRm' = NoRemove
    /\ UNCHANGED <<kind, prefix, calls, wops>>

-----------------------------------------------------------------------------
(* Remove *)

\* what the backend's delete call can answer for a key that is present or not:
\* S3 deletes are successful on a missing key, GCS reports it, the file system
\* reports it or refuses (EACCES) whether or not the file is there
DeleteOutcomes(k, present) ==
    IF k = "s3" THEN {Nil} \cup S3Failures
    ELSE IF k = "gs" THEN (IF present THEN {Nil} ELSE {ErrObjectNotExist}) \cup GsFailures
    ELSE (IF present THEN {Nil} ELSE {OsError("ENOENT")}) \cup {OsError("EACCES")}

\* what the delete call answers when nothing goes wrong
QuietDelete(k, present) ==
    IF present \/ k = "s3" THEN Nil ELSE MissingErr(k)

\* what Remove returns for the backend's answer: bfss3 normalises it, bfsgs drops
\* "object does not exist", bfsos returns it only if os.IsExist(err)
RemoveReturn(k, err) ==
    IF k = "s3" THEN normError(err)
    ELSE IF k = "gs" THEN (IF err = ErrObjectNotExist THEN Nil ELSE err)
    ELSE IF err # Nil /\ IsExist(err) THEN err ELSE Nil

\* bucket.Remove(name); the record keeps what Head, Open and a second, undisturbed
\* Remove of the same name report right after it
Remove(name) ==
    LET key == KeyOf(kind, prefix, name) IN
    \E err \in DeleteOutcomes(kind, Has(objects, key)) :
        LET objs == IF err = Nil THEN Del(objects, key) ELSE objects IN
        /\ objects' = objs
        /\ w' = IF w.active /\ kind = "os" /\ err = Nil /\ KeyOf(kind, prefix, w.name) = key
                THEN [w EXCEPT !.linked = FALSE] ELSE w
        /\ lastRm' = [done |-> TRUE, name |-> name, err |-> RemoveReturn(kind, err),
                      head |-> HeadOf(kind, prefix, objs, name).err,
                      open |-> OpenOf(kind, prefix, objs, name).err,
                      again |-> RemoveReturn(kind, QuietDelete(kind, Has(objs, key)))]
        /\ UNCHANGED <<kind, prefix, calls, wops>>

-----------------------------------------------------------------------------
(* The bucket and its writer *)

KeyIdle ==
    kop = [op |-> "none", name |-> <<>>, key |-> NoKey, src |-> <<>>,
           srcBucket |-> NoKey, srcKey |-> NoKey]

StoreIdle ==
    /\ objects = <<>>
    /\ w = NoWriter
    /\ calls = <<>>
    /\ wops = 0
    /\ lastRm = NoRemove

IterIdle ==
    /\ it = <<>>
    /\ listing = <<>>
    /\ matcher = <<>>
    /\ nexts = <<>>
    /\ fetches = 0
    /\ closedAt = <<>>

\* no goroutine is finalizing, no operation, Read or helper call has been made
RaceIdle == race = <<>>
OpsIdle == last = <<>>
ReadIdle == rd = <<>>
AppIdle == app = <<>>
GlobIdle == gen = <<>>
LoopIdle == loop = <<>>
RegIdle == reg = <<>>

\* nothing but the bucket, its writer and its iterator is in use
MoreIdle ==
    /\ GlobIdle
    /\ LoopIdle
    /\ RegIdle

RestIdle ==
    /\ RaceIdle
    /\ OpsIdle
    /\ ReadIdle
    /\ AppIdle
    /\ MoreIdle

Init ==
    /\ kind \in Kinds
    /\ prefix = StorePrefix(kind)
    /\ StoreIdle
    /\ KeyIdle
    /\ IterIdle
    /\ RestIdle

Next ==
    \/ \E name \in StoreNames : Create(name)
    \/ \E chunk \in Chunks : \E n \in 0..Len(chunk) : Write(chunk, n)
    \/ Commit
    \/ Discard
    \/ CloseWriter
    \/ \E name \in StoreNames : Remove(name)

Spec ==
    Init /\ [][Next /\ UNCHANGED <<keyVars, iterVars, raceVars, opVars, readVars, appVars, globVars, loopVars, regVars>>]_vars

KeysInit ==
    /\ KeyInit
    /\ StoreIdle
    /\ IterIdle
    /\ RestIdle

SpecKeys ==
    KeysInit /\ [][KeyNext /\ UNCHANGED <<storeVars, iterVars, raceVars, opVars, readVars, appVars, globVars, loopVars, regVars>>]_vars

-----------------------------------------------------------------------------
(* Properties of the writer and the store *)

\* C1: of the Commit and Discard calls made on one writer only the first runs the
\* finalize logic; every later call returns an error (context.Canceled) and adds
\* no upload, no close of the staging file and no deletion of it.
C1_LaterFinalizeRejected ==
    \A i \in 2..Len(calls) :
        /\ calls[i].err = CtxCanceled
        /\ calls[i].uploads = calls[1].uploads
        /\ calls[i].closes = calls[1].closes
        /\ calls[i].rms = calls[1].rms

\* a Commit whose upload failed, followed by a second Commit
C1_Witness ==
    /\ Len(calls) = 2
    /\ calls[1].op = "Commit" /\ calls[1].uploads = 1 /\ calls[1].err # Nil
    /\ calls[2].op = "Commit"

\* C2: once Discard was the first finalize call of a writer, that writer never
\* contacts the backend: no upload is ever issued, the writer is never published,
\* and a destination that was absent at Create stays absent for Head and Open.
C2_DiscardFirstNeverPublishes ==
    (Len(calls) >= 1 /\ calls[1].op = "Discard") =>
        /\ w.uploads = 0
        /\ ~w.published
        /\ \A i \in 1..Len(calls) : calls[i].uploads = 0
        /\ w.absent =>
              /\ HeadOf(kind, prefix, objects, w.name).err = ErrNotFound
              /\ OpenOf(kind, prefix, objects, w.name).err = ErrNotFound

\* Writes, then Discard, then a Commit on the discarded writer
C2_Witness ==
    /\ Len(calls) = 2
    /\ calls[1].op = "Discard" /\ calls[2].op = "Commit"
    /\ Len(w.staged) >= 1

\* C3: between Create and the first successful Commit (s3) or Close (gs, os) a
\* destination that was absent at Create is still absent for Head and Open.
C3_InvisibleBeforeCommit ==
    (w.active /\ w.absent /\ ~w.published) =>
        /\ HeadOf(kind, prefix, objects, w.name).err = ErrNotFound
        /\ OpenOf(kind, prefix, objects, w.name).err = ErrNotFound

\* C4: after successful Writes and a successful first Commit, Open of the name
\* delivers the written bytes in order and Head reports their number as the size.
C4_CommitPublishesWrittenBytes ==
    (Len(calls) >= 1 /\ calls[1].op = "Commit" /\ calls[1].err = Nil /\ w.writesOk) =>
        /\ calls[1].open = [err |-> Nil, content |-> w.written]
        /\ calls[1].head = [err |-> Nil, size |-> Len(w.written)]

\* two different bytes written and committed
C4_Witness ==
    /\ Len(calls) >= 1
    /\ calls[1].op = "Commit" /\ calls[1].err = Nil
    /\ w.writesOk /\ w.written = <<1, 0>>

\* C11: when the first Commit or Discard of a writer has returned, whatever it
\* returned, the removal of the temp file has been issued once and the file is gone.
C11_StagingReleased ==
    Len(calls) >= 1 =>
        /\ calls[1].rms = 1
        /\ w.rms = 1
        /\ ~w.tmp

\* a first Commit whose upload was cancelled
C11_Witness ==
    /\ Len(calls) = 1
    /\ calls[1].op = "Commit" /\ calls[1].uploads = 1 /\ calls[1].err = CtxCanceled

\* C6: after a Remove that returned success, Head and Open report not-found and
\* a second Remove of the name succeeds.
C6_RemoveThenAbsent ==
    (lastRm.done /\ lastRm.err = Nil) =>
        /\ lastRm.head = ErrNotFound
        /\ lastRm.open = ErrNotFound
        /\ lastRm.again = Nil

-----------------------------------------------------------------------------
(* Iterators: bfss3 pages through ListObjectsV2, bfsgs wraps the storage
   client's object iterator *)

MaxPages == 3
MaxKeys == 2
MaxNexts == 4

IterKinds == {"s3", "gs"}

\* the prefix of the bucket that is listed
IterPrefix == norm(<<"x">>)

\* the object names under the prefix, and the keys the backend lists for them
IterNames == {<<"a">>, <<"b">>}
IterKeys == {IterPrefix \o n : n \in IterNames}

\* what doublestar.Match(pattern, name) can answer
MatchResults == {"match", "nomatch", "error"}

\* doublestar.ErrBadPattern, the failure of a listing request, iterator.Done
ErrBadPattern == Opaque("syntax error in pattern")
ListFailure == Opaque("list: 500")
Done == Err("iterator.Done", 0, "")

\* a page of the backend's listing: its keys, or the request for it fails
OkPage(keys) == [keys |-> keys, fail |-> FALSE]
FailPage == [keys |-> <<>>, fail |-> TRUE]

KeysUpTo(n) ==
    UNION {[1..m -> IterKeys] : m \in 0..n}

\* the listings of at most p pages holding at most n keys; a failing request ends one
RECURSIVE ListingsOf(_, _)
ListingsOf(p, n) ==
    IF p = 0 THEN {<<>>}
    ELSE {<<>>, <<FailPage>>} \cup
         UNION {{<<OkPage(ks)>> \o rest : rest \in ListingsOf(p - 1, n - Len(ks))} :
                ks \in KeysUpTo(n)}

Listings == ListingsOf(MaxPages, MaxKeys) \ {<<>>}

\* the iterator Glob returns; token 0 is the nil continuation token
NewIter ==
    [token |-> 0, err |-> Nil, last |-> FALSE, pos |-> 0, page |-> <<>>,
     consumed |-> 0, current |-> <<>>]

\* the names of a page that match, up to the first key the match fails on
RECURSIVE ScanPage(_, _, _, _)
ScanPage(keys, mt, pfx, acc) ==
    IF keys = <<>> THEN [page |-> acc, err |-> Nil]
    ELSE LET name == stripPrefix(pfx, Head(keys)) IN
         IF mt[name] = "error" THEN [page |-> acc, err |-> ErrBadPattern]
         ELSE IF mt[name] = "match" THEN ScanPage(Tail(keys), mt, pfx, Append(acc, name))
         ELSE ScanPage(Tail(keys), mt, pfx, acc)

\* a page reset that leaves the cursor on the first entry
ResetPageAtFirst(itr) ==
    [itr EXCEPT !.page = <<>>, !.pos = 0]

\* fetchNextPage: the page is emptied and the cursor put before its first entry
ResetPage(itr) ==
    [itr EXCEPT !.page = <<>>, !.pos = -1]

\* an answer whose continuation token is not taken over
AnswerIgnored(itr, lst) ==
    itr

\* fetchNextPage: i.token = res.NextContinuationToken; i.last = i.token == nil;
\* the request with token t is answered by page t + 1
TakeAnswer(itr, lst) ==
    LET tok == IF itr.token + 1 < Len(lst) THEN itr.token + 1 ELSE 0 IN
    [itr EXCEPT !.token = tok, !.last = (tok = 0)]

\* bfss3 iterator.fetchNextPage, with nothing else touching the iterator
fetchNextPage(itr, lst, mt, pfx) ==
    LET pg == lst[itr.token + 1]
        scan == ScanPage(pg.keys, mt, pfx, <<>>)
    IN IF pg.fail THEN [it |-> ResetPage(itr), err |-> ListFailure]
       ELSE [it |-> [TakeAnswer(ResetPage(itr), lst) EXCEPT !.page = scan.page],
             err |-> scan.err]

\* an iterator that forgets it has failed
FailedNever(itr) ==
    FALSE

\* the guard Next starts with
Failed(itr) ==
    itr.err # Nil

\* bfss3 iterator.Next, with nothing else touching the iterator; n counts the
\* listing requests issued
RECURSIVE NextS3(_, _, _, _, _)
NextS3(itr, lst, mt, pfx, n) ==
    IF Failed(itr) THEN [it |-> itr, ret |-> FALSE, fetches |-> n]
    ELSE LET adv == [itr EXCEPT !.pos = @ + 1] IN
         IF adv.pos < Len(adv.page) THEN [it |-> adv, ret |-> TRUE, fetches |-> n]
         ELSE IF adv.last THEN [it |-> adv, ret |-> FALSE, fetches |-> n]
         ELSE LET f == fetchNextPage(adv, lst, mt, pfx) IN
              IF f.err # Nil
              THEN [it |-> [f.it EXCEPT !.err = f.err], ret |-> FALSE, fetches |-> n + 1]
              ELSE NextS3(f.it, lst, mt, pfx, n + 1)

\* the keys the storage client's iterator delivers before it ends or fails
RECURSIVE Delivered(_)
Delivered(lst) ==
    IF lst = <<>> \/ Head(lst).fail THEN <<>>
    ELSE Head(lst).keys \o Delivered(Tail(lst))

\* storage.ObjectIterator.Next after c objects: the next object, the failure of
\* the request for the next page, or iterator.Done
ObjectIteratorNext(lst, c) ==
    IF c < Len(Delivered(lst)) THEN [key |-> Delivered(lst)[c + 1], err |-> Nil]
    ELSE IF \E i \in 1..Len(lst) : lst[i].fail THEN [key |-> <<>>, err |-> ListFailure]
    ELSE [key |-> <<>>, err |-> Done]

\* bfsgs iterator.Next; n counts the calls of the storage client's iterator
RECURSIVE NextGs(_, _, _, _, _)
NextGs(itr, lst, mt, pfx, n) ==
    IF Failed(itr) THEN [it |-> itr, ret |-> FALSE, fetches |-> n]
    ELSE LET obj == ObjectIteratorNext(lst, itr.consumed)
             adv == [itr EXCEPT !.consumed = @ + 1]
             name == stripPrefix(pfx, obj.key)
         IN IF obj.err # Nil
            THEN [it |-> [itr EXCEPT !.err = obj.err], ret |-> FALSE, fetches |-> n + 1]
            ELSE IF mt[name] = "error"
            THEN [it |-> [adv EXCEPT !.err = ErrBadPattern], ret |-> FALSE,
                  fetches |-> n + 1]
            ELSE IF mt[name] = "match"
            THEN [it |-> [adv EXCEPT !.current = name], ret |-> TRUE, fetches |-> n + 1]
            ELSE NextGs(adv, lst, mt, pfx, n + 1)

\* iterator.Name: bfss3 reads the page at the cursor, bfsgs the current object;
\* a cursor before the page makes the index expression panic
NameOf(k, itr) ==
    IF k = "gs" THEN itr.current
    ELSE IF itr.pos < Len(itr.page)
         THEN (IF itr.pos < 0 THEN <<"panic">> ELSE itr.page[itr.pos + 1])
         ELSE <<>>

\* iterator.Error: bfsgs does not report iterator.Done
ErrorOf(k, itr) ==
    IF k = "gs" /\ itr.err = Done THEN Nil ELSE itr.err

\* bfss3 iterator.Close: i.last = true
CloseLast(itr) ==
    [itr EXCEPT !.last = TRUE]

\* a store of i.pos
StorePos(itr, p) ==
    [itr EXCEPT !.pos = p]

\* bfss3 iterator.Close: i.pos = len(i.page), the length loaded and stored with
\* nothing else touching the iterator in between
ClosePos(itr) ==
    StorePos(itr, Len(itr.page))

\* iterator.Close: bfss3 marks the last page and moves the cursor past the page,
\* bfsgs does nothing
CloseOf(k, itr) ==
    IF k = "gs" THEN itr ELSE ClosePos(CloseLast(itr))

\* the first Close(): the requests issued and the Next() calls made before it
NoClose == [closed |-> FALSE, fetches |-> 0, nexts |-> 0]

\* a goroutine in bfss3 Next(), or in the Name() it calls after a Next() that
\* returned true: the iterator it shares with Close(), its place in the code, the
\* value of i.pos it holds in a register, the keys of the answer not yet looked
\* at, the tokens the requests carried, what Next() and what Name() returned
Running(itr, pc, held, todo, reqs, ret) ==
    [it |-> itr, pc |-> pc, reg |-> held, todo |-> todo, reqs |-> reqs, ret |-> ret,
     name |-> <<>>]

\* bfss3 iterator.Next and the iterator.Name after it, one access of the fields
\* i.pos, i.last and i.page at a time.  The iterator holds no lock, so the
\* accesses of a Close() in another goroutine fall between any two of these
\* steps.  Where the goroutine reads i.pos again after its own access of it, the
\* value comes from memory (reload) or from the register the build kept it in.
\*   guard: if i.err != nil                 (only Next writes i.err)
\*   load:  i.pos++, the load of i.pos
\*   store: i.pos++, the store of i.pos
\*   test:  i.pos < len(i.page)             (only Next writes i.page)
\*   last:  if i.last
\*   empty: fetchNextPage: i.page = i.page[:0]
\*   send:  fetchNextPage: i.pos = -1, and the request goes out with i.token
\*   wait:  the answer: it fails and Next stores i.err, or i.token and i.last
\*          are stored from it           (only fetchNextPage writes i.token)
\*   fill:  one key of the answer is stripped, matched and appended; a match
\*          that fails makes Next store i.err; after the last key Next calls
\*          itself
\*   name:  Name(): i.pos < len(i.page)
\*   index: Name(): i.page[i.pos].key, which panics on an index outside the page
StepS3(c, lst, mt, pfx, reload) ==
    CASE c.pc = "guard" ->
            IF Failed(c.it) THEN [c EXCEPT !.pc = "idle", !.ret = FALSE]
            ELSE [c EXCEPT !.pc = "load"]
      [] c.pc = "load" ->
            [c EXCEPT !.reg = c.it.pos, !.pc = "store"]
      [] c.pc = "store" ->
            [c EXCEPT !.it.pos = c.reg + 1, !.reg = c.reg + 1, !.pc = "test"]
      [] c.pc = "test" ->
            LET p == IF reload THEN c.it.pos ELSE c.reg IN
            IF p < Len(c.it.page) THEN [c EXCEPT !.reg = 0, !.pc = "name", !.ret = TRUE]
            ELSE [c EXCEPT !.reg = 0, !.pc = "last"]
      [] c.pc = "last" ->
            IF c.it.last THEN [c EXCEPT !.pc = "idle", !.ret = FALSE]
            ELSE [c EXCEPT !.pc = "empty"]
      [] c.pc = "empty" ->
            [c EXCEPT !.it.page = ResetPage(c.it).page, !.pc = "send"]
      [] c.pc = "send" ->
            [c EXCEPT !.it.pos = ResetPage(c.it).pos, !.pc = "wait",
                      !.reqs = Append(@, c.it.token)]
      [] c.pc = "wait" ->
            LET pg == lst[c.it.token + 1] IN
            IF pg.fail
            THEN [c EXCEPT !.it.err = ListFailure, !.pc = "idle", !.ret = FALSE]
            ELSE [c EXCEPT !.it = TakeAnswer(@, lst), !.todo = pg.keys,
                           !.pc = IF pg.keys = <<>> THEN "guard" ELSE "fill"]
      [] c.pc = "fill" ->
            LET name == stripPrefix(pfx, Head(c.todo)) IN
            IF mt[name] = "error"
            THEN [c EXCEPT !.it.err = ErrBadPattern, !.todo = <<>>, !.pc = "idle",
                           !.ret = FALSE]
            ELSE [c EXCEPT !.it.page = IF mt[name] = "match" THEN Append(@, name) ELSE @,
                           !.todo = Tail(@),
                           !.pc = IF Tail(c.todo) = <<>> THEN "guard" ELSE "fill"]
      [] c.pc = "name" ->
            IF c.it.pos < Len(c.it.page) THEN [c EXCEPT !.reg = c.it.pos, !.pc = "index"]
            ELSE [c EXCEPT !.pc = "idle", !.name = <<>>]
      [] c.pc = "index" ->
            LET p == IF reload THEN c.it.pos ELSE c.reg IN
            [c EXCEPT !.reg = 0, !.pc = "idle",
                      !.name = IF p < 0 \/ p >= Len(c.it.page) THEN <<"panic">>
                               ELSE c.it.page[p + 1]]
      [] OTHER -> c

IterInit ==
    /\ kind \in IterKinds
    /\ prefix = IterPrefix
    /\ listing \in Listings
    /\ matcher \in [IterNames -> MatchResults]
    /\ it = NewIter
    /\ nexts = <<>>
    /\ fetches = 0
    /\ closedAt = NoClose
    /\ StoreIdle
    /\ KeyIdle
    /\ RestIdle

\* one call of Next(), and of Name() and Error() after it
IterNext ==
    /\ Len(nexts) < MaxNexts
    /\ LET r == IF kind = "s3" THEN NextS3(it, listing, matcher, prefix, fetches)
                ELSE NextGs(it, listing, matcher, prefix, fetches)
       IN /\ it' = r.it
          /\ fetches' = r.fetches
          /\ nexts' = Append(nexts, [ret |-> r.ret,
                                     name |-> IF r.ret THEN NameOf(kind, r.it) ELSE <<>>,
                                     err |-> ErrorOf(kind, r.it),
                                     fetches |-> r.fetches])
    /\ UNCHANGED <<kind, prefix, listing, matcher, closedAt>>

\* one call of Close()
IterClose ==
    /\ it' = CloseOf(kind, it)
    /\ closedAt' = IF closedAt.closed THEN closedAt
                   ELSE [closed |-> TRUE, fetches |-> fetches, nexts |-> Len(nexts)]
    /\ UNCHANGED <<kind, prefix, listing, matcher, nexts, fetches>>

\* the iterator in the hands of one goroutine
IterUse ==
    \/ IterNext
    \/ IterClose

SpecIter ==
    IterInit /\ [][IterUse /\ UNCHANGED <<keyVars, storeVars, raceVars, opVars, readVars, appVars, globVars, loopVars, regVars>>]_vars

-----------------------------------------------------------------------------
(* Properties of the iterators *)

\* the names the Next() calls made so far have yielded, in order
RECURSIVE YieldedBy(_)
YieldedBy(ns) ==
    IF ns = <<>> THEN <<>>
    ELSE IF Head(ns).ret THEN <<Head(ns).name>> \o YieldedBy(Tail(ns))
    ELSE YieldedBy(Tail(ns))

\* every key of the listing, in listing order
RECURSIVE AllKeys(_)
AllKeys(lst) ==
    IF lst = <<>> THEN <<>> ELSE Head(lst).keys \o AllKeys(Tail(lst))

\* the keys of a listing that match the pattern, as names, in listing order
RECURSIVE MatchingNames(_, _, _)
MatchingNames(keys, mt, pfx) ==
    IF keys = <<>> THEN <<>>
    ELSE LET name == TrimPrefix(Head(keys), pfx) IN
         IF mt[name] = "match" THEN <<name>> \o MatchingNames(Tail(keys), mt, pfx)
         ELSE MatchingNames(Tail(keys), mt, pfx)

IsPrefixOf(a, b) ==
    Len(a) <= Len(b) /\ SubSeq(b, 1, Len(a)) = a

\* a is b with some of its entries left out
RECURSIVE IsSubseqOf(_, _)
IsSubseqOf(a, b) ==
    IF a = <<>> THEN TRUE
    ELSE IF b = <<>> THEN FALSE
    ELSE IF Head(a) = Head(b) THEN IsSubseqOf(Tail(a), Tail(b))
    ELSE IsSubseqOf(a, Tail(b))

\* no request of the listing fails and the pattern match fails on none of its keys
ErrorFree(lst, mt, pfx) ==
    /\ \A i \in 1..Len(lst) : ~lst[i].fail
    /\ \A i \in 1..Len(AllKeys(lst)) : mt[TrimPrefix(AllKeys(lst)[i], pfx)] # "error"

\* C7: over a listing without errors, and without Close, the names yielded are
\* the matching keys without the prefix, each once and in listing order across
\* the pages; Next() returns false only when all of them have been yielded.
C7_YieldsMatchesInOrder ==
    (ErrorFree(listing, matcher, prefix) /\ ~closedAt.closed) =>
        LET want == MatchingNames(AllKeys(listing), matcher, prefix) IN
        /\ IsPrefixOf(YieldedBy(nexts), want)
        /\ \A i \in 1..Len(nexts) :
              ~nexts[i].ret => YieldedBy(SubSeq(nexts, 1, i)) = want

\* three pages, the middle one without a match, two names yielded and then false
C7_Witness ==
    /\ ErrorFree(listing, matcher, prefix) /\ ~closedAt.closed
    /\ Len(listing) = 3 /\ listing[2].keys = <<>>
    /\ Len(nexts) = 3
    /\ nexts[1].ret /\ nexts[2].ret /\ ~nexts[3].ret
    /\ nexts[1].name # nexts[2].name

\* C9: after Close() every Next() returns false and no further listing call is
\* issued.
C9_CloseIsFinal ==
    closedAt.closed =>
        /\ fetches = closedAt.fetches
        /\ \A j \in (closedAt.nexts + 1)..Len(nexts) : ~nexts[j].ret

-----------------------------------------------------------------------------
(* Properties of key resolution *)

\* the backend keys the last operation addressed
KeysUsed ==
    IF kop.op = "none" THEN {}
    ELSE IF kop.op = "Copy" THEN {kop.key, kop.srcKey}
    ELSE {kop.key}

\* C5: under a non-empty prefix every key an operation reads, writes or deletes
\* starts with the prefix, and the source of a Copy is an object of the bucket
\* itself.
C5_KeysStartWithPrefix ==
    prefix # <<>> =>
        /\ \A key \in KeysUsed : HasPrefix(key, prefix)
        /\ kop.op = "Copy" => kop.srcBucket = BucketName

-----------------------------------------------------------------------------
(* Concurrent finalize: goroutines calling Commit and Discard on one bfss3
   writer.  closeOnce is a sync.Once: Do loads done, and if it is not set takes
   the mutex, looks at done again, runs the body, stores done and unlocks. *)

MaxCallers == 2

Callers == 1..MaxCallers

FinalizeOps == {"Commit", "Discard"}

\* a goroutine that has not called yet
IdleCaller ==
    [pc |-> "idle", op |-> "none", err |-> Nil, ran |-> FALSE, slow |-> FALSE]

\* the writer Create has returned and that has taken successful Writes
RaceInit ==
    /\ kind = "s3"
    /\ prefix = StorePrefix("s3")
    /\ objects = <<>>
    /\ \E name \in StoreNames, data \in {<<>>} \cup Chunks :
          w = [NewWriter("s3", name, TRUE) EXCEPT !.staged = data, !.written = data]
    /\ calls = <<>>
    /\ wops = 1
    /\ lastRm = NoRemove
    /\ race = [holder |-> 0, g |-> [c \in Callers |-> IdleCaller]]
    /\ KeyIdle
    /\ IterIdle
    /\ OpsIdle
    /\ ReadIdle
    /\ AppIdle
    /\ MoreIdle

\* a mutex that does not keep anyone out
MutexIgnored(holder) ==
    TRUE

\* sync.Mutex.Lock returns only while no one holds the mutex
MutexFree(holder) ==
    holder = 0

\* the goroutine c moves on
Goto(c, pc) ==
    race' = [race EXCEPT !.g[c].pc = pc]

\* Commit() / Discard() is entered: err := context.Canceled
RaceCall(c) ==
    /\ race.g[c].pc = "idle"
    /\ \E op \in FinalizeOps :
          race' = [race EXCEPT !.g[c] = [IdleCaller EXCEPT !.pc = "check", !.op = op,
                                                             !.err = CtxCanceled]]
    /\ UNCHANGED <<kind, prefix, storeVars>>

\* Once.Do: the load of done before the mutex is taken
RaceFastPath(c) ==
    /\ race.g[c].pc = "check"
    /\ Goto(c, IF OnceRuns(w.done) THEN "lock" ELSE "ret")
    /\ UNCHANGED <<kind, prefix, storeVars>>

\* Once.doSlow: m.Lock()
RaceLock(c) ==
    /\ race.g[c].pc = "lock"
    /\ MutexFree(race.holder)
    /\ race' = [race EXCEPT !.holder = c, !.g[c].pc = "locked"]
    /\ UNCHANGED <<kind, prefix, storeVars>>

\* Once.doSlow: done is looked at again under the mutex; the body runs if it is unset
RaceSlowCheck(c) ==
    /\ race.g[c].pc = "locked"
    /\ race' = IF OnceRuns(w.done)
               THEN [race EXCEPT !.g[c].pc = "close", !.g[c].ran = TRUE]
               ELSE [race EXCEPT !.g[c].pc = "unlock", !.g[c].slow = TRUE]
    /\ UNCHANGED <<kind, prefix, storeVars>>

\* the body: err = w.File.Close(); Discard ends here, Commit ends here on a failure
RaceClose(c) ==
    /\ race.g[c].pc = "close"
    /\ \E closeErr \in {Nil} \cup CloseFailures :
          race' = [race EXCEPT !.g[c].err = closeErr,
                               !.g[c].pc = IF closeErr = Nil /\ race.g[c].op = "Commit"
                                           THEN "open" ELSE "remove"]
    /\ w' = [w EXCEPT !.closes = @ + 1, !.fileOpen = FALSE]
    /\ UNCHANGED <<kind, prefix, objects, calls, wops, lastRm>>

\* the body of Commit: file, err = os.Open(fname)
RaceOpen(c) ==
    /\ race.g[c].pc = "open"
    /\ \E openErr \in {Nil} \cup OpenFailures :
          race' = [race EXCEPT !.g[c].err = openErr,
                               !.g[c].pc = IF openErr = Nil THEN "upload" ELSE "remove"]
    /\ UNCHANGED <<kind, prefix, storeVars>>

\* the body of Commit: _, err = UploadWithContext(...)
RaceUpload(c) ==
    /\ race.g[c].pc = "upload"
    /\ \E upErr \in {Nil} \cup S3Failures :
          LET in == UploadInput(prefix, w) IN
          /\ race' = [race EXCEPT !.g[c].err = upErr, !.g[c].pc = "remove"]
          /\ w' = [w EXCEPT !.uploads = @ + 1, !.published = @ \/ upErr = Nil]
          /\ objects' = IF upErr = Nil THEN Put(objects, in.key, in.body) ELSE objects
    /\ UNCHANGED <<kind, prefix, calls, wops, lastRm>>

\* the body returns: the deferred os.Remove(fname)
RaceRemove(c) ==
    /\ race.g[c].pc = "remove"
    /\ Goto(c, "store")
    /\ w' = [w EXCEPT !.rms = @ + 1, !.tmp = FALSE]
    /\ UNCHANGED <<kind, prefix, objects, calls, wops, lastRm>>

\* Once.doSlow: the deferred done.Store(1)
RaceStoreDone(c) ==
    /\ race.g[c].pc = "store"
    /\ Goto(c, "unlock")
    /\ w' = [w EXCEPT !.done = TRUE]
    /\ UNCHANGED <<kind, prefix, objects, calls, wops, lastRm>>

\* Once.doSlow: the deferred m.Unlock()
RaceUnlock(c) ==
    /\ race.g[c].pc = "unlock"
    /\ race' = [race EXCEPT !.holder = 0, !.g[c].pc = "ret"]
    /\ UNCHANGED <<kind, prefix, storeVars>>

\* return err (Discard) / return normError(err) (Commit)
RaceReturn(c) ==
    /\ race.g[c].pc = "ret"
    /\ race' = [race EXCEPT !.g[c].pc = "done",
                            !.g[c].err = IF race.g[c].op = "Commit" THEN normError(@) ELSE @]
    /\ UNCHANGED <<kind, prefix, storeVars>>

RaceNext ==
    \E c \in Callers :
        \/ RaceCall(c)
        \/ RaceFastPath(c)
        \/ RaceLock(c)
        \/ RaceSlowCheck(c)
        \/ RaceClose(c)
        \/ RaceOpen(c)
        \/ RaceUpload(c)
        \/ RaceRemove(c)
        \/ RaceStoreDone(c)
        \/ RaceUnlock(c)
        \/ RaceReturn(c)

SpecRace ==
    RaceInit /\ [][RaceNext /\ UNCHANGED <<keyVars, iterVars, opVars, readVars, appVars, globVars, loopVars, regVars>>]_vars

\* the goroutines whose call ran the finalize body
Winners == {c \in Callers : race.g[c].ran}

\* C12: under every interleaving of concurrent Commit and Discard calls on one
\* writer at most one call runs the finalize body: at most one upload is issued,
\* the object is published only if the call that ran the body is a Commit, the
\* temp file is removed at most once and exactly once when all calls are back,
\* and a call that did not run the body returns context.Canceled, and only after
\* the body has completed.
C12_OneFinalizeUnderRace ==
    /\ Cardinality(Winners) <= 1
    /\ w.uploads <= 1
    /\ w.rms <= 1
    /\ w.published => \E c \in Winners : race.g[c].op = "Commit"
    /\ \A c \in Callers :
          (race.g[c].pc = "done" /\ ~race.g[c].ran) =>
              /\ race.g[c].err = CtxCanceled
              /\ w.done /\ w.rms = 1 /\ ~w.tmp
    /\ (\A c \in Callers : race.g[c].pc = "done") =>
          /\ Cardinality(Winners) = 1
          /\ w.rms = 1

\* a Commit that found the gate open, waited for the mutex while a Discard ran the
\* body, and came back after it
C12_Witness ==
    \E c \in Callers, d \in Callers :
        /\ race.g[c].pc = "done" /\ race.g[c].op = "Commit" /\ race.g[c].slow
        /\ race.g[d].pc = "done" /\ race.g[d].op = "Discard" /\ race.g[d].ran
        /\ ~w.published

-----------------------------------------------------------------------------
(* Bucket operations, one at a time, on a store of two names: Head, Open,
   Remove, Copy and Glob, with the backend's answer and what the adapter
   returns for it *)

MaxContent == 1

OpNames == {<<"a">>, <<"b">>}

\* the contents an object can have
Contents ==
    UNION {[1..m -> Bytes] : m \in 0..MaxContent}

\* the stores of a bucket of kind k: any of the names present, with any content
StoresOf(k) ==
    UNION {[{KeyOf(k, StorePrefix(k), n) : n \in present} -> Contents] :
           present \in SUBSET OpNames}

\* the failures of a request that do not depend on the object being there
OpFaults(k) ==
    IF k = "s3" THEN {RequestFailure(403, "AccessDenied"), AwsError("RequestCanceled")}
    ELSE IF k = "gs" THEN GsFailures
    ELSE {OsError("EACCES")}

\* what HeadObject / GetObject, Attrs / NewReader, os.Stat / os.Open can answer
ReadAnswers(k, present) ==
    (IF present THEN {Nil} ELSE {MissingErr(k)}) \cup OpFaults(k)

\* what CopyObject / Copier.Run can answer for a source that is present or not
CopyAnswers(k, present) ==
    (IF present THEN {Nil}
     ELSE IF k = "s3" THEN {RequestFailure(404, "NoSuchKey")} ELSE {ErrObjectNotExist})
    \cup OpFaults(k)

NoOp ==
    [op |-> "none", name |-> <<>>, src |-> <<>>, raw |-> Nil, err |-> Nil,
     fault |-> FALSE, before |-> <<>>, iter |-> FALSE, matches |-> {},
     walks |-> 0, lists |-> 0]

OpsInit ==
    /\ kind \in Kinds
    /\ prefix = StorePrefix(kind)
    /\ objects \in StoresOf(kind)
    /\ w = NoWriter
    /\ calls = <<>>
    /\ wops = 0
    /\ lastRm = NoRemove
    /\ last = NoOp
    /\ KeyIdle
    /\ IterIdle
    /\ RaceIdle
    /\ ReadIdle
    /\ AppIdle
    /\ MoreIdle

\* bucket.Head / gsBucket.Head / bfsos bucket.Head
DoHead(name) ==
    \E raw \in ReadAnswers(kind, Has(objects, KeyOf(kind, prefix, name))) :
        /\ last' = [NoOp EXCEPT !.op = "Head", !.name = name, !.raw = raw,
                                !.err = normOf(kind, raw), !.fault = raw \in OpFaults(kind),
                                !.before = objects]
        /\ UNCHANGED <<kind, prefix, storeVars>>

\* bucket.Open / gsBucket.Open / bfsos bucket.Open
DoOpen(name) ==
    \E raw \in ReadAnswers(kind, Has(objects, KeyOf(kind, prefix, name))) :
        /\ last' = [NoOp EXCEPT !.op = "Open", !.name = name, !.raw = raw,
                                !.err = normOf(kind, raw), !.fault = raw \in OpFaults(kind),
                                !.before = objects]
        /\ UNCHANGED <<kind, prefix, storeVars>>

\* bucket.Remove / gsBucket.Remove / bfsos bucket.Remove
DoRemove(name) ==
    LET key == KeyOf(kind, prefix, name) IN
    \E raw \in DeleteOutcomes(kind, Has(objects, key)) :
        /\ objects' = IF raw = Nil /\ Has(objects, key) THEN Del(objects, key) ELSE objects
        /\ last' = [NoOp EXCEPT !.op = "Remove", !.name = name, !.raw = raw,
                                !.err = RemoveReturn(kind, raw),
                                !.fault = raw \notin {Nil, MissingErr(kind)},
                                !.before = objects]
        /\ UNCHANGED <<kind, prefix, w, calls, wops, lastRm>>

\* bfss3 bucket.Copy and gsBucket.Copy: the answer of the copy request is returned as it is
CopyRemote(k, objs, pfx, src, dst, raw) ==
    [objects |-> IF raw = Nil THEN Put(objs, KeyOf(k, pfx, dst), objs[SrcKeyOf(k, pfx, src)])
                 ELSE objs,
     raw |-> raw, err |-> raw]

\* where a copy through the file system is made to fail
CopyFaults == {"none", "open", "copy", "close"}

\* bfsos bucket.Copy: Open(src), Create(dst) with O_EXCL, io.Copy, dst.Close()
CopyOs(objs, root, src, dst, flt) ==
    LET srcKey == resolve(root, src)
        dstKey == resolve(root, dst)
        openRaw == IF flt = "open" THEN OsError("EACCES")
                   ELSE IF Has(objs, srcKey) THEN Nil ELSE OsError("ENOENT")
    IN IF openRaw # Nil
       THEN [objects |-> objs, raw |-> openRaw, err |-> normErrorOs(openRaw)]
       ELSE IF Has(objs, dstKey)
       THEN [objects |-> objs, raw |-> OsError("EEXIST"),
             err |-> normErrorOs(OsError("EEXIST"))]
       ELSE IF flt = "copy"
       THEN [objects |-> Put(objs, dstKey, <<>>), raw |-> OsError("EIO"),
             err |-> normErrorOs(OsError("EIO"))]
       ELSE LET closeRaw == IF flt = "close" THEN OsError("EIO") ELSE Nil IN
            [objects |-> Put(objs, dstKey, FileWrite(<<>>, objs[srcKey])),
             raw |-> closeRaw, err |-> normErrorOs(closeRaw)]

\* Copy(src, dst)
DoCopy(src, dst) ==
    LET srcHere == /\ SrcBucketOf(kind, prefix, src) = BucketName
                   /\ Has(objects, SrcKeyOf(kind, prefix, src))
    IN
    \E raw \in (IF kind = "os" THEN {Nil} ELSE CopyAnswers(kind, srcHere)),
       flt \in (IF kind = "os" THEN CopyFaults ELSE {"none"}) :
        LET r == IF kind = "os" THEN CopyOs(objects, prefix, src, dst, flt)
                 ELSE CopyRemote(kind, objects, prefix, src, dst, raw)
        IN
        /\ objects' = r.objects
        /\ last' = [NoOp EXCEPT !.op = "Copy", !.name = dst, !.src = src, !.raw = r.raw,
                                !.err = r.err,
                                !.fault = IF kind = "os" THEN flt # "none"
                                          ELSE raw \in OpFaults(kind),
                                !.before = objects]
        /\ UNCHANGED <<kind, prefix, w, calls, wops, lastRm>>

\* the patterns Glob is called with: the empty one, literals, a wildcard, and
\* patterns with a character class that is never closed
GlobPatterns ==
    {<<>>, <<"*">>, <<"a">>, <<"[">>, <<"[", "a">>, <<"a", "[">>}

\* a character class is opened and not closed
Malformed(p) ==
    \E i \in 1..Len(p) : p[i] = "[" /\ \A j \in (i + 1)..Len(p) : p[j] # "]"

\* doublestar.Match(pattern, ""): ErrBadPattern for a malformed pattern
SanityCheck(p) ==
    IF Malformed(p) THEN ErrBadPattern ELSE Nil

\* filepath.Match(pattern, name) for the patterns above, its error dropped
FilepathMatch(p, name) ==
    ~Malformed(p) /\ (p = <<"*">> \/ p = name)

\* the results of filepath.Walk(root): the regular files under root, or a failure
WalkFailures == {OsError("EACCES")}

\* bfss3 bucket.Glob / gsBucket.Glob: the pattern is tried on "", the iterator is
\* returned without a listing request
GlobRemote(p) ==
    IF SanityCheck(p) # Nil
    THEN [NoOp EXCEPT !.op = "Glob", !.name = p, !.err = SanityCheck(p)]
    ELSE [NoOp EXCEPT !.op = "Glob", !.name = p, !.iter = TRUE]

\* bfsos bucket.Glob: the tree is walked and every regular file matched
GlobOs(p, objs, root, walkErr) ==
    IF p = <<>> THEN [NoOp EXCEPT !.op = "Glob", !.name = p, !.iter = TRUE]
    ELSE IF walkErr # Nil
    THEN [NoOp EXCEPT !.op = "Glob", !.name = p, !.walks = 1, !.raw = walkErr,
                      !.err = walkErr, !.fault = TRUE]
    ELSE [NoOp EXCEPT !.op = "Glob", !.name = p, !.walks = 1, !.iter = TRUE,
                      !.matches = {TrimPrefix(key, root) : key \in
                                      {k \in DOMAIN objs :
                                          FilepathMatch(p, TrimPrefix(k, root))}}]

\* Glob(pattern)
DoGlob(p) ==
    \E walkErr \in {Nil} \cup WalkFailures :
        /\ kind # "os" => walkErr = Nil
        /\ last' = [(IF kind = "os" THEN GlobOs(p, objects, prefix, walkErr)
                     ELSE GlobRemote(p)) EXCEPT !.before = objects]
        /\ UNCHANGED <<kind, prefix, storeVars>>

OpsNext ==
    \/ \E name \in OpNames : DoHead(name)
    \/ \E name \in OpNames : DoOpen(name)
    \/ \E name \in OpNames : DoRemove(name)
    \/ \E src \in OpNames, dst \in OpNames : DoCopy(src, dst)
    \/ \E p \in GlobPatterns : DoGlob(p)

SpecOps ==
    OpsInit /\ [][OpsNext /\ UNCHANGED <<keyVars, iterVars, raceVars, readVars, appVars, globVars, loopVars, regVars>>]_vars

-----------------------------------------------------------------------------
(* Properties of the bucket operations *)

\* the backend's answer says that the object does not exist
NotExistReport(raw) ==
    \/ raw.status = 404
    \/ raw.code = "NoSuchKey"
    \/ raw = ErrObjectNotExist
    \/ IsNotExist(raw)

\* C13: when the backend reports that the object does not exist, Head, Open and
\* Copy return the shared not-found error and Remove returns success; the
\* backend's own error value is never returned.
C13_NotFoundAtEveryBoundary ==
    (last.op \in {"Head", "Open", "Remove", "Copy"} /\ NotExistReport(last.raw)) =>
        last.err = IF last.op = "Remove" THEN Nil ELSE ErrNotFound

\* C15: Remove returns success only if the object is absent afterwards, and every
\* answer of the backend other than success and "does not exist" is returned as
\* an error.
C15_RemoveReportsFailures ==
    last.op = "Remove" =>
        /\ last.err = Nil => ~Has(objects, KeyOf(kind, prefix, last.name))
        /\ (last.raw # Nil /\ ~NotExistReport(last.raw)) => last.err # Nil

\* C16: Glob of a malformed pattern returns an error and no iterator without a
\* listing request or a walk of the file system; Glob of a well-formed pattern
\* issues no listing request.
C16_GlobValidatesEagerly ==
    last.op = "Glob" =>
        /\ Malformed(last.name) =>
              /\ last.err # Nil
              /\ ~last.iter
              /\ last.walks = 0 /\ last.lists = 0
        /\ ~Malformed(last.name) => last.lists = 0

\* C17: a Copy of an existing source that meets no failure of the backend leaves
\* the destination with the content the source had, whether the destination
\* existed or not and also when it is the source, and leaves the source as it
\* was; a Copy of an absent source leaves the store as it was.
C17_CopyMakesDstEqualSrc ==
    last.op = "Copy" =>
        LET srcKey == SrcKeyOf(kind, prefix, last.src)
            dstKey == KeyOf(kind, prefix, last.name)
        IN IF Has(last.before, srcKey)
           THEN ~last.fault =>
                    /\ Has(objects, dstKey)
                    /\ objects[dstKey] = last.before[srcKey]
                    /\ Has(objects, srcKey)
                    /\ objects[srcKey] = last.before[srcKey]
           ELSE objects = last.before

-----------------------------------------------------------------------------
(* The helper functions applied to every short input: normError of each
   adapter, Config.norm and stripPrefix *)

\* the HTTP statuses and the error codes of the S3 errors tried
Statuses == {403, 404, 500}
Codes == {"NoSuchKey", "RequestCanceled", "AccessDenied"}

\* a googleapi.Error with its HTTP status
GoogleApiError(status) == Err("googleapi.Error", status, "")

\* the error values handed to an adapter's normError
ErrInputs(k) ==
    IF k = "s3"
    THEN {Nil, CtxCanceled, Opaque("EOF")}
         \cup {RequestFailure(st, c) : st \in Statuses, c \in Codes}
         \cup {AwsError(c) : c \in Codes}
    ELSE IF k = "gs"
    THEN {Nil, CtxCanceled, ErrObjectNotExist, GoogleApiError(403), GoogleApiError(404)}
    ELSE {Nil, CtxCanceled, OsError("ENOENT"), OsError("EACCES"), OsError("EEXIST")}

\* the keys stripPrefix is applied to: short strings, alone and behind the prefix
StripKeys(pfx) ==
    NameStrs \cup {pfx \o n : n \in NameStrs}

NoApp ==
    [f |-> "none", k |-> "", pfx |-> <<>>, in |-> <<>>, out |-> <<>>]

AppInit ==
    /\ kind \in Kinds
    /\ prefix \in PrefixesOf(kind)
    /\ app = NoApp
    /\ StoreIdle
    /\ KeyIdle
    /\ IterIdle
    /\ RaceIdle
    /\ OpsIdle
    /\ ReadIdle
    /\ MoreIdle

\* normError(err) of the bucket's adapter
AppNormError ==
    /\ app.f = "none"
    /\ \E e \in ErrInputs(kind) :
          app' = [NoApp EXCEPT !.f = "normError", !.k = kind, !.in = e,
                               !.out = normOf(kind, e)]
    /\ UNCHANGED <<kind, prefix>>

\* Config.norm() on a configured prefix
AppNorm ==
    /\ app.f = "none"
    /\ kind \in {"s3", "gs"}
    /\ \E p \in NameStrs :
          app' = [NoApp EXCEPT !.f = "norm", !.k = kind, !.in = p, !.out = norm(p)]
    /\ UNCHANGED <<kind, prefix>>

\* stripPrefix(key) of a bucket with a normalised prefix
AppStripPrefix ==
    /\ app.f = "none"
    /\ kind \in {"s3", "gs"}
    /\ \E key \in StripKeys(prefix) :
          app' = [NoApp EXCEPT !.f = "stripPrefix", !.k = kind, !.pfx = prefix,
                               !.in = key, !.out = stripPrefix(prefix, key)]
    /\ UNCHANGED <<kind, prefix>>

\* the keys a listing under the bucket's prefix can return: for bfss3 and bfsgs
\* any key that starts with the prefix, for bfsos the paths filepath.Walk builds
\* for the files below the root
ListedKeys(k, pfx) ==
    IF k = "os" THEN {resolve(pfx, n) : n \in NameStrs} \ {Clean(pfx)}
    ELSE {pfx \o n : n \in NameStrs \ {<<>>}}

\* the name the iterator exposes for a listed key
ListedName(k, pfx, key) ==
    IF k = "os" THEN TrimPrefix(key, pfx) ELSE stripPrefix(pfx, key)

\* a listed key is turned into its name, and the name is resolved as Head, Open
\* and Remove resolve it
AppRoundTrip ==
    /\ app.f = "none"
    /\ \E key \in ListedKeys(kind, prefix) :
          app' = [NoApp EXCEPT !.f = "roundtrip", !.k = kind, !.pfx = prefix, !.in = key,
                               !.out = KeyOf(kind, prefix, ListedName(kind, prefix, key))]
    /\ UNCHANGED <<kind, prefix>>

AppNext ==
    \/ AppNormError
    \/ AppNorm
    \/ AppStripPrefix
    \/ AppRoundTrip

SpecFuncs ==
    AppInit /\ [][AppNext /\ UNCHANGED <<kop, storeVars, iterVars, raceVars, opVars, readVars, globVars, loopVars, regVars>>]_vars

\* C14: normError maps nil to nil, every error with status 404 or the code
\* NoSuchKey (or the backend's own not-found value) to ErrNotFound, every other
\* error with the code RequestCanceled to context.Canceled, whatever kind of
\* value carries the code, and returns every other error unchanged.
C14_NormErrorIsTotalMapping ==
    app.f = "normError" =>
        app.out = IF app.in = Nil THEN Nil
                  ELSE IF NotExistReport(app.in) THEN ErrNotFound
                  ELSE IF app.in.code = "RequestCanceled" THEN CtxCanceled
                  ELSE app.in

\* C19: the normalised prefix is empty, or does not start with a separator and
\* ends in exactly one separator.
C19_NormalizedPrefixShape ==
    app.f = "norm" =>
        \/ app.out = <<>>
        \/ /\ ~HasPrefix(app.out, <<Sep>>)
           /\ HasSuffix(app.out, <<Sep>>)
           /\ ~HasSuffix(app.out, <<Sep, Sep>>)

\* C20: stripPrefix takes the prefix and one separator after it off a key that
\* starts with the prefix, and returns a key that does not start with the prefix
\* (or any key, when the prefix is empty) as it is.
C20_StripPrefixOnlyStripsPrefix ==
    app.f = "stripPrefix" =>
        app.out = IF app.pfx # <<>> /\ HasPrefix(app.in, app.pfx)
                  THEN TrimPrefix(SubSeq(app.in, Len(app.pfx) + 1, Len(app.in)), <<Sep>>)
                  ELSE app.in

-----------------------------------------------------------------------------
(* The reader bfss3 Open returns: a response wrapping the body of the HTTP
   response, with the declared content length as its byte budget *)

MaxLength == 2
MaxBuf == 3
MaxReads == 3

EOF == Err("io.EOF", 0, "")
ErrReset == Opaque("connection reset")

Min(a, b) == IF a < b THEN a ELSE b

\* what Read(p) of the body can return for a buffer of p bytes when the transport
\* still holds left bytes: some of them, with nil, with io.EOF at the end of the
\* data, or with a failure
BodyReads(p, left) ==
    {[n |-> n, err |-> Nil] : n \in 0..Min(p, left)}
    \cup {[n |-> left, err |-> EOF] : n \in {m \in {left} : m <= p}}
    \cup {[n |-> n, err |-> ErrReset] : n \in 0..Min(p, left)}

\* a Read that hands the whole buffer to the body
WholeBuf(buf, remaining) ==
    buf

\* if int64(len(p)) > r.ContentLength { p = p[:r.ContentLength] }
ClampBuf(buf, remaining) ==
    IF buf > remaining THEN remaining ELSE buf

\* response.Read with a buffer of buf bytes, the body answering b; the result is
\* what is returned, the new ContentLength and whether the body was read
ResponseRead(remaining, buf, b) ==
    IF remaining <= 0
    THEN [n |-> 0, err |-> EOF, remaining |-> remaining, touched |-> FALSE]
    ELSE [n |-> b.n,
          err |-> IF b.err = EOF /\ b.n > 0 /\ b.n = remaining THEN Nil ELSE b.err,
          remaining |-> remaining - b.n, touched |-> TRUE]

\* the response Open returns for a declared length and a body holding left bytes
NewResponse(length, left) ==
    [length |-> length, remaining |-> length, left |-> left, delivered |-> 0,
     reads |-> 0, bodyReads |-> 0,
     lastBefore |-> length, lastN |-> 0, lastErr |-> Nil, lastTouched |-> FALSE]

ReadInit ==
    /\ kind = "s3"
    /\ prefix = StorePrefix("s3")
    /\ \E length \in (-1)..MaxLength, left \in 0..(MaxLength + 1) :
          rd = NewResponse(length, left)
    /\ StoreIdle
    /\ KeyIdle
    /\ IterIdle
    /\ RaceIdle
    /\ OpsIdle
    /\ AppIdle
    /\ MoreIdle

\* one call of Read(p) with len(p) = buf
ReadCall(buf) ==
    /\ rd.reads < MaxReads
    /\ \E b \in BodyReads(IF rd.remaining <= 0 THEN 0 ELSE ClampBuf(buf, rd.remaining),
                          rd.left) :
          LET r == ResponseRead(rd.remaining, buf, b) IN
          /\ rd.remaining <= 0 => b = [n |-> 0, err |-> Nil]
          /\ rd' = [rd EXCEPT !.remaining = r.remaining,
                              !.left = IF r.touched THEN @ - b.n ELSE @,
                              !.delivered = @ + r.n,
                              !.reads = @ + 1,
                              !.bodyReads = IF r.touched THEN @ + 1 ELSE @,
                              !.lastBefore = rd.remaining,
                              !.lastN = r.n, !.lastErr = r.err,
                              !.lastTouched = r.touched]
    /\ UNCHANGED <<kind, prefix>>

ReadNext ==
    \E buf \in 0..MaxBuf : ReadCall(buf)

SpecRead ==
    ReadInit /\ [][ReadNext /\ UNCHANGED <<kop, storeVars, iterVars, raceVars, opVars, appVars, globVars, loopVars, regVars>>]_vars

\* C18: the bytes delivered never exceed the declared length, the remaining
\* length of a response with a declared length of zero or more never becomes
\* negative, and a Read made when nothing remains (the declared length delivered,
\* or a length of zero or less) returns 0 and io.EOF without reading the body.
C18_ReadBoundedByLength ==
    /\ rd.delivered <= (IF rd.length > 0 THEN rd.length ELSE 0)
    /\ rd.remaining = rd.length - rd.delivered
    /\ rd.length >= 0 => rd.remaining >= 0
    /\ (rd.reads >= 1 /\ rd.lastBefore <= 0) =>
          /\ rd.lastN = 0
          /\ rd.lastErr = EOF
          /\ ~rd.lastTouched

\* the declared two bytes delivered by two Reads into a larger buffer, then a
\* Read that ends the stream although the body holds a further byte
C18_Witness ==
    /\ rd.length = 2 /\ rd.delivered = 2 /\ rd.left >= 1
    /\ rd.reads = 3 /\ rd.bodyReads = 2
    /\ rd.lastN = 0 /\ rd.lastErr = EOF

-----------------------------------------------------------------------------
(* Glob called again on the same bucket: the iterator of the earlier call is
   left as it is, fresh, half-consumed, exhausted, failed or closed, and a new
   one is made over the same listing *)

MaxGlobs == 2
MaxGlobPages == 2
MaxGlobKeys == 2

\* a Glob that hands out the iterator of the call before
GlobReusing(old) ==
    old

\* bucket.Glob / gsBucket.Glob: &iterator{parent, ctx, pattern}, for bfsgs around
\* a new storage.ObjectIterator
GlobIterator(old) ==
    NewIter

\* a Next() of the iterator has returned false before any Close()
RanOut(ns, cl) ==
    \E i \in 1..Len(ns) : ~ns[i].ret /\ (cl.closed => i <= cl.nexts)

\* how the owner leaves an iterator behind
LeftAs(itr, ns, cl) ==
    IF ns = <<>> /\ ~cl.closed THEN "fresh"
    ELSE IF RanOut(ns, cl) THEN (IF itr.err \notin {Nil, Done} THEN "failed" ELSE "exhausted")
    ELSE IF cl.closed THEN "closed"
    ELSE "half"

NoGlob == [n |-> 1, left |-> "none", yielded |-> <<>>]

GlobAgainInit ==
    /\ kind \in IterKinds
    /\ prefix = IterPrefix
    /\ listing \in ListingsOf(MaxGlobPages, MaxGlobKeys) \ {<<>>}
    /\ matcher \in [IterNames -> MatchResults]
    /\ it = GlobIterator(NewIter)
    /\ nexts = <<>>
    /\ fetches = 0
    /\ closedAt = NoClose
    /\ gen = NoGlob
    /\ StoreIdle
    /\ KeyIdle
    /\ RaceIdle
    /\ OpsIdle
    /\ ReadIdle
    /\ AppIdle
    /\ LoopIdle
    /\ RegIdle

\* Next() or Close() on the current iterator, by the goroutine that called Glob
GlobUse ==
    /\ IterUse
    /\ UNCHANGED gen

\* Glob(pattern) once more, with the same pattern
GlobAgain ==
    /\ gen.n < MaxGlobs
    /\ gen' = [n |-> gen.n + 1, left |-> LeftAs(it, nexts, closedAt),
               yielded |-> YieldedBy(nexts)]
    /\ it' = GlobIterator(it)
    /\ nexts' = <<>>
    /\ fetches' = 0
    /\ closedAt' = NoClose
    /\ UNCHANGED <<kind, prefix, listing, matcher>>

GlobNext ==
    \/ GlobUse
    \/ GlobAgain

SpecGlobAgain ==
    GlobAgainInit /\ [][GlobNext /\ UNCHANGED <<keyVars, storeVars, raceVars, opVars, readVars, appVars, loopVars, regVars>>]_vars

\* the names a new iterator yields over the listing when it is run until Next()
\* returns false
RECURSIVE RunAll(_, _, _, _, _, _)
RunAll(k, itr, lst, mt, pfx, acc) ==
    LET r == IF k = "s3" THEN NextS3(itr, lst, mt, pfx, 0) ELSE NextGs(itr, lst, mt, pfx, 0)
    IN IF r.ret THEN RunAll(k, r.it, lst, mt, pfx, Append(acc, NameOf(k, r.it)))
       ELSE acc

Range(seq) == {seq[i] : i \in 1..Len(seq)}

\* C21: an iterator that has not been used yet is in the state of a new one,
\* without token, page, cursor or error, however the iterator of the Glob before
\* was left; what it yields is the start of what a new iterator yields over the
\* listing, and all of it once Next() has returned false; two iterators that were
\* both run until Next() returned false yielded the same set of names.
C21_GlobStartsAfresh ==
    LET fresh == RunAll(kind, NewIter, listing, matcher, prefix, <<>>) IN
    /\ (nexts = <<>> /\ ~closedAt.closed) => (it = NewIter /\ fetches = 0)
    /\ ~closedAt.closed => IsPrefixOf(YieldedBy(nexts), fresh)
    /\ RanOut(nexts, closedAt) => YieldedBy(nexts) = fresh
    /\ (gen.left = "exhausted" /\ RanOut(nexts, closedAt)) =>
          Range(YieldedBy(nexts)) = Range(gen.yielded)

\* the first iterator was left after one of two names, the second yielded both
C21_Witness ==
    /\ gen.n = 2 /\ gen.left = "half" /\ Len(gen.yielded) = 1
    /\ RanOut(nexts, closedAt) /\ ~closedAt.closed
    /\ Len(YieldedBy(nexts)) = 2

-----------------------------------------------------------------------------
(* Next() step by step: bfss3 Next calls itself after every page it fetched,
   bfsgs Next loops over the objects of the storage client's iterator.  One
   goroutine owns the iterator and calls Next(), and Name() after every true;
   another goroutine calls Close() on the bfss3 iterator at any time, any number
   of times.  bfss3 Close() and Next() share i.pos, i.last and i.page without a
   lock, so every load and store of them is a step of its own. *)

MaxLoopPages == 2
MaxLoopKeys == 1
MaxLoopCalls == 2
MaxRacedPages == 1
MaxRacedKeys == 2
MaxFetches == 4

\* the owner is in no call, Close() is not running; log tells whether the calls
\* that returned are written to nexts, max how many calls the owner makes
NoLoop ==
    [pc |-> "idle", reg |-> 0, todo |-> <<>>, reqs |-> <<>>, fetched |-> 0, calls |-> 0,
     ret |-> FALSE, cl |-> "idle", clen |-> 0, log |-> FALSE, max |-> 0]

\* the listing holds the key of the name
Listed(lst, n) ==
    \E i \in 1..Len(AllKeys(lst)) : AllKeys(lst)[i] = IterPrefix \o n

\* the start of the two goroutines: a listing, a new iterator, and an answer of
\* the pattern match for every name listed (one answer stands for the names that
\* are never matched)
LoopStart(lsts, log, max) ==
    /\ kind \in IterKinds
    /\ prefix = IterPrefix
    /\ listing \in lsts
    /\ matcher \in [IterNames -> MatchResults]
    /\ \A n \in IterNames : Listed(listing, n) \/ matcher[n] = "nomatch"
    /\ it = NewIter
    /\ nexts = <<>>
    /\ fetches = 0
    /\ closedAt = NoClose
    /\ loop = [NoLoop EXCEPT !.log = log, !.max = max]
    /\ StoreIdle
    /\ KeyIdle
    /\ RaceIdle
    /\ OpsIdle
    /\ ReadIdle
    /\ AppIdle
    /\ GlobIdle
    /\ RegIdle

LoopInit ==
    LoopStart(ListingsOf(MaxLoopPages, MaxLoopKeys) \ {<<>>}, FALSE, MaxLoopCalls)

RacedInit ==
    LoopStart(ListingsOf(MaxRacedPages, MaxRacedKeys) \ {<<>>}, TRUE, MaxNexts)

\* what the owner saw of a call: the result of Next(), of the Name() after a
\* true, of Error(), and the requests issued so far
LoopLog(itr, ret, name, n) ==
    IF loop.log
    THEN Append(nexts, [ret |-> ret, name |-> name, err |-> ErrorOf(kind, itr),
                        fetches |-> n])
    ELSE nexts

\* Next() is called
LoopCall ==
    /\ loop.pc = "idle"
    /\ loop.calls < loop.max
    /\ loop' = [loop EXCEPT !.pc = "guard", !.fetched = 0]
    /\ UNCHANGED <<kind, prefix, listing, matcher, it, nexts, fetches, closedAt>>

\* the step of the owner of the bfss3 iterator that its place in the code calls
\* for; the call is over when Next() returned false or the Name() after it returned
LoopStepS3(pc) ==
    /\ kind = "s3" /\ loop.pc = pc
    /\ \E reload \in BOOLEAN :
          LET c == StepS3(Running(it, loop.pc, loop.reg, loop.todo, loop.reqs, loop.ret),
                          listing, matcher, prefix, reload)
              sent == Len(c.reqs) - Len(loop.reqs)
          IN /\ it' = c.it
             /\ fetches' = fetches + sent
             /\ loop' = [loop EXCEPT !.pc = c.pc, !.reg = c.reg, !.todo = c.todo,
                                     !.ret = c.ret, !.reqs = c.reqs,
                                     !.fetched = @ + sent,
                                     !.calls = IF c.pc = "idle" THEN @ + 1 ELSE @]
             /\ nexts' = IF c.pc = "idle" THEN LoopLog(c.it, c.ret, c.name, fetches + sent)
                         ELSE nexts
    /\ UNCHANGED <<kind, prefix, listing, matcher, closedAt>>

\* bfss3 Next: if i.err != nil
LoopGuardS3 ==
    LoopStepS3("guard")

\* bfss3 Next: i.pos++, the load and then the store
LoopIncS3 ==
    \/ LoopStepS3("load")
    \/ LoopStepS3("store")

\* bfss3 Next: i.pos < len(i.page), and then i.last
LoopTestS3 ==
    \/ LoopStepS3("test")
    \/ LoopStepS3("last")

\* fetchNextPage: the page is emptied, then the cursor is put before it and the
\* request sent with the iterator's token
LoopFetchS3 ==
    \/ LoopStepS3("empty")
    \/ /\ Len(loop.reqs) < MaxFetches
       /\ LoopStepS3("send")

\* fetchNextPage: the answer to the request arrives
LoopAnswerS3 ==
    LoopStepS3("wait")

\* fetchNextPage: one key of the answer; after the last one, i.Next()
LoopFillS3 ==
    LoopStepS3("fill")

\* bfss3 Name() after a Next() that returned true: the test, then the index
LoopNameS3 ==
    \/ LoopStepS3("name")
    \/ LoopStepS3("index")

\* Close() from another goroutine: i.last = true
LoopCloseLast ==
    /\ kind = "s3" /\ loop.cl = "idle"
    /\ it' = CloseLast(it)
    /\ loop' = [loop EXCEPT !.cl = "len"]
    /\ UNCHANGED <<kind, prefix, listing, matcher, nexts, fetches, closedAt>>

\* Close() from another goroutine: i.pos = len(i.page), the load of the length
LoopCloseLen ==
    /\ kind = "s3" /\ loop.cl = "len"
    /\ loop' = [loop EXCEPT !.cl = "pos", !.clen = Len(it.page)]
    /\ UNCHANGED <<kind, prefix, listing, matcher, it, nexts, fetches, closedAt>>

\* Close() from another goroutine: i.pos = len(i.page), the store of the length
\* loaded before, and the return
LoopClosePos ==
    /\ kind = "s3" /\ loop.cl = "pos"
    /\ it' = StorePos(it, loop.clen)
    /\ loop' = [loop EXCEPT !.cl = "idle", !.clen = 0]
    /\ UNCHANGED <<kind, prefix, listing, matcher, nexts, fetches, closedAt>>

\* bfsgs Next: the guard and one round of its for loop, and the Name() after a
\* true; no other goroutine writes a field of the bfsgs iterator
LoopRoundGs ==
    /\ kind = "gs" /\ loop.pc = "guard"
    /\ LET obj == ObjectIteratorNext(listing, it.consumed)
           adv == [it EXCEPT !.consumed = @ + 1]
           name == stripPrefix(prefix, obj.key)
           r == IF Failed(it) THEN [it |-> it, done |-> TRUE, ret |-> FALSE, n |-> 0]
                ELSE IF obj.err # Nil
                THEN [it |-> [it EXCEPT !.err = obj.err], done |-> TRUE, ret |-> FALSE,
                      n |-> 1]
                ELSE IF matcher[name] = "error"
                THEN [it |-> [adv EXCEPT !.err = ErrBadPattern], done |-> TRUE,
                      ret |-> FALSE, n |-> 1]
                ELSE IF matcher[name] = "match"
                THEN [it |-> [adv EXCEPT !.current = name], done |-> TRUE, ret |-> TRUE,
                      n |-> 1]
                ELSE [it |-> adv, done |-> FALSE, ret |-> FALSE, n |-> 1]
       IN /\ it' = r.it
          /\ fetches' = fetches + r.n
          /\ loop' = [loop EXCEPT !.pc = IF r.done THEN "idle" ELSE @,
                                  !.calls = IF r.done THEN @ + 1 ELSE @,
                                  !.ret = r.ret, !.fetched = @ + r.n]
          /\ nexts' = IF r.done
                      THEN LoopLog(r.it, r.ret, IF r.ret THEN NameOf(kind, r.it) ELSE <<>>,
                                   fetches + r.n)
                      ELSE nexts
    /\ UNCHANGED <<kind, prefix, listing, matcher, closedAt>>

\* the steps of the goroutine that owns the iterator, once it is in Next()
LoopStep ==
    \/ LoopGuardS3
    \/ LoopIncS3
    \/ LoopTestS3
    \/ LoopFetchS3
    \/ LoopAnswerS3
    \/ LoopFillS3
    \/ LoopNameS3
    \/ LoopRoundGs

\* the steps of the goroutine that calls Close()
LoopClose ==
    \/ LoopCloseLast
    \/ LoopCloseLen
    \/ LoopClosePos

LoopNext ==
    \/ LoopCall
    \/ LoopStep
    \/ LoopClose

\* a step of the owner, which touches nothing but the iterator
LoopRun ==
    /\ LoopStep
    /\ UNCHANGED <<keyVars, storeVars, raceVars, opVars, readVars, appVars, globVars, regVars>>

\* a goroutine inside Next() keeps running, and the backend answers every request
SpecLoop ==
    /\ LoopInit
    /\ [][LoopNext /\ UNCHANGED <<keyVars, storeVars, raceVars, opVars, readVars, appVars, globVars, regVars>>]_vars
    /\ WF_vars(LoopRun)

\* the same two goroutines, with every call of the owner written to nexts
SpecRaced ==
    RacedInit /\ [][LoopNext /\ UNCHANGED <<keyVars, storeVars, raceVars, opVars, readVars, appVars, globVars, regVars>>]_vars

\* the listing requests were sent with no token first and then each with the
\* token the page before returned, one request per page at most
TokensInOrder ==
    /\ Len(loop.reqs) <= Len(listing)
    /\ \A i \in 1..Len(loop.reqs) : loop.reqs[i] = i - 1

\* C23: over a finite listing every Next() returns, after at most one request per
\* page, each request carrying the token the page before returned, however many
\* pages in a row hold no match, and also while another goroutine is in Close().
C23_NextTerminates ==
    /\ [] TokensInOrder
    /\ (loop.pc # "idle") ~> (loop.pc = "idle")

\* one Next() that fetched two pages, the first without a match, and returned
\* true while a Close() was between its load and its store
C23_Witness ==
    /\ kind = "s3" /\ loop.pc = "idle" /\ loop.calls = 1 /\ loop.ret
    /\ MatchingNames(listing[1].keys, matcher, prefix) = <<>>
    /\ loop.fetched = 2 /\ loop.reqs = <<0, 1>>
    /\ loop.cl = "pos"

\* C8: once a Next() has left an error, Error() keeps returning it, every later
\* Next() returns false and no further listing call is issued, whatever a
\* Close() in another goroutine stores meanwhile.
C8_ErrorsAreSticky ==
    \A i \in 1..Len(nexts) :
        nexts[i].err # Nil =>
            /\ ErrorOf(kind, it) = nexts[i].err
            /\ fetches = nexts[i].fetches
            /\ \A j \in (i + 1)..Len(nexts) :
                  /\ ~nexts[j].ret
                  /\ nexts[j].err = nexts[i].err
                  /\ nexts[j].fetches = nexts[i].fetches

\* a Next() of the bfss3 iterator that left an error and two more that returned
\* false, while a Close() has stored i.last and has its store of i.pos pending
C8_Witness ==
    /\ kind = "s3" /\ Len(nexts) = 3
    /\ nexts[1].err # Nil
    /\ loop.pc = "idle" /\ loop.cl = "pos"
    /\ it.last

\* C10: once a Next() has returned false every later Next() returns false, and
\* the names yielded are matches of the listing in listing order, each entry of
\* the listing at most once: none is yielded again.
C10_NotRestartable ==
    /\ \A i \in 1..Len(nexts) : \A j \in (i + 1)..Len(nexts) :
          ~nexts[i].ret => ~nexts[j].ret
    /\ IsSubseqOf(YieldedBy(nexts), MatchingNames(AllKeys(listing), matcher, prefix))

-----------------------------------------------------------------------------
(* Listed keys and the names exposed for them *)

\* a relative path in cleaned form: segments that are not empty, "." or "..",
\* without a separator in front or at the end
CleanRel(r) ==
    /\ r # <<>>
    /\ \A i \in 1..Len(Split(r)) : Split(r)[i] \notin {<<>>, Dot, DotDot}

\* C24 as stated: the name exposed for any listed key resolves back to that key.
C24_ListedKeysRoundTrip ==
    app.f = "roundtrip" => app.out = app.in

\* C24: the name exposed for a listed key resolves back to that key if the key is
\* the prefix followed by a path in cleaned form, as every key written through
\* the bucket is; so it does for every key of a bucket without a prefix and for
\* every path of a walk of the file system.
C24_CleanKeysRoundTrip ==
    (/\ app.f = "roundtrip"
     /\ \/ app.k = "os"
        \/ app.pfx = <<>>
        \/ CleanRel(SubSeq(app.in, Len(app.pfx) + 1, Len(app.in)))) =>
        app.out = app.in

\* the key x/a/a of a bucket with the prefix x/ is exposed as a/a and found again
C24_Witness ==
    /\ app.f = "roundtrip" /\ app.k = "s3" /\ app.pfx = <<"x", Sep>>
    /\ app.in = <<"x", Sep, "a", Sep, "a">>
    /\ app.out = app.in

-----------------------------------------------------------------------------
(* The scheme registry: Register and Resolve from concurrent goroutines *)

MaxGoroutines == 2
MaxRegCalls == 3

Goroutines == 1..MaxGoroutines

\* the URL schemes in use; a resolver may resolve the schemes listed before its own
SchemeOrder == <<"file", "s3">>
Schemes == {SchemeOrder[n] : n \in 1..Len(SchemeOrder)}
SchemeRank(s) == CHOOSE n \in 1..Len(SchemeOrder) : SchemeOrder[n] = s
SchemesBefore(s) == {t \in Schemes : SchemeRank(t) < SchemeRank(s)}

\* a Resolver value: who passed it to Register, and what it does when it runs:
\* it builds a bucket, or registers another scheme first, or resolves another URL
NoResolver == [by |-> 0, does |-> "none", arg |-> "-"]
PlainResolver(c) == [by |-> c, does |-> "plain", arg |-> "-"]
InnerResolver(c) == [by |-> c, does |-> "plain", arg |-> "inner"]
ResolversFor(c, scheme) ==
    {PlainResolver(c)}
        \cup {[by |-> c, does |-> "register", arg |-> t] : t \in Schemes \ {scheme}}
        \cup {[by |-> c, does |-> "resolve", arg |-> t] : t \in SchemesBefore(scheme)}

\* registry = map[string]Resolver{}
EmptyRegistry == [s \in Schemes |-> NoResolver]

\* a test for a key that no map passes
ExistsNever(m, scheme) ==
    FALSE

\* _, exists := registry[scheme]
Exists(m, scheme) ==
    m[scheme] # NoResolver

\* sync.Mutex.Unlock
Unlocked(holder) ==
    0

\* a Resolve that leaves the lock as it is
ResolveKeepsLock(holder) ==
    holder

\* the registryLock.Unlock() of Resolve, before the resolver is called
ResolveUnlocks(holder) ==
    Unlocked(holder)

\* a call on a goroutine's stack
Frame(f, scheme, resv, ran0) ==
    [f |-> f, pc |-> IF f = "resolver" THEN "body" ELSE "lock", scheme |-> scheme,
     resv |-> resv, ok |-> TRUE, seen |-> EmptyRegistry, ran0 |-> ran0]

\* what the call that ended in the last step came to, and on which goroutine
NoOut ==
    [c |-> 0, op |-> "none", scheme |-> "-", res |-> "none", ran |-> 0, dup |-> FALSE,
     same |-> TRUE, depth |-> 0]

IdleGoroutine == [stack |-> <<>>, ran |-> 0]

RegInit ==
    /\ reg = [map |-> EmptyRegistry, holder |-> 0,
              g |-> [c \in Goroutines |-> IdleGoroutine],
              left |-> MaxRegCalls, out |-> NoOut,
              first |-> EmptyRegistry, writes |-> [s \in Schemes |-> 0]]
    /\ kind = "s3"
    /\ prefix = <<>>
    /\ StoreIdle
    /\ KeyIdle
    /\ IterIdle
    /\ RaceIdle
    /\ OpsIdle
    /\ ReadIdle
    /\ AppIdle
    /\ GlobIdle
    /\ LoopIdle

Top(c) == reg.g[c].stack[Len(reg.g[c].stack)]
Busy(c) == reg.g[c].stack # <<>>
At(c, f, pc) == Busy(c) /\ Top(c).f = f /\ Top(c).pc = pc

\* the call on top of the stack of c moves on
RegGoto(r, c, top) ==
    [r EXCEPT !.g[c].stack[Len(r.g[c].stack)] = top, !.out = NoOut]

\* a call is made from within the call on top, which waits for it
RegPush(r, c, pc, frame) ==
    [r EXCEPT !.g[c].stack = Append([@ EXCEPT ![Len(@)].pc = pc], frame), !.out = NoOut]

\* the call on top returns or panics, and with it every call waiting for it:
\* Resolve returns what the resolver returns, a resolver what its inner call comes
\* to, and no caller on the stack recovers
RegFinish(r, c, res) ==
    LET top == r.g[c].stack[Len(r.g[c].stack)] IN
    [r EXCEPT !.g[c] = IdleGoroutine,
              !.out = [c |-> c, op |-> top.f, scheme |-> top.scheme, res |-> res,
                       ran |-> r.g[c].ran - top.ran0,
                       dup |-> Exists(top.seen, top.scheme),
                       same |-> r.map = top.seen,
                       depth |-> Len(r.g[c].stack)]]

\* a goroutine calls Register or Resolve
RegCall(c) ==
    /\ ~Busy(c)
    /\ reg.left > 0
    /\ \E scheme \in Schemes :
          \/ \E resv \in ResolversFor(c, scheme) :
                reg' = [reg EXCEPT !.left = @ - 1, !.out = NoOut,
                                   !.g[c].stack = <<Frame("Register", scheme, resv, 0)>>]
          \/ reg' = [reg EXCEPT !.left = @ - 1, !.out = NoOut,
                                !.g[c].stack = <<Frame("Resolve", scheme, NoResolver, 0)>>]

\* Register: registryLock.Lock(), and what it does before any other goroutine can
\* get the lock: if _, exists := registry[scheme]; exists { panic(...) };
\* registry[scheme] = resv
RegisterLocked(c) ==
    /\ At(c, "Register", "lock")
    /\ MutexFree(reg.holder)
    /\ LET s == Top(c).scheme
           top == [Top(c) EXCEPT !.pc = "unlock", !.seen = reg.map]
           locked == [reg EXCEPT !.holder = c]
       IN
       reg' = IF Exists(reg.map, s)
              THEN RegGoto(locked, c, [top EXCEPT !.ok = FALSE])
              ELSE RegGoto([locked EXCEPT !.map[s] = top.resv,
                                          !.writes[s] = @ + 1,
                                          !.first[s] = IF @ = NoResolver THEN top.resv ELSE @],
                           c, top)

\* Register: the deferred registryLock.Unlock(), on return and on panic
RegisterUnlock(c) ==
    /\ At(c, "Register", "unlock")
    /\ reg' = RegFinish([reg EXCEPT !.holder = Unlocked(@)], c,
                        IF Top(c).ok THEN "ok" ELSE "panic")

\* Resolve: registryLock.Lock(); resv, ok := registry[u.Scheme]
ResolveLocked(c) ==
    /\ At(c, "Resolve", "lock")
    /\ MutexFree(reg.holder)
    /\ reg' = RegGoto([reg EXCEPT !.holder = c], c,
                      [Top(c) EXCEPT !.pc = "unlock",
                                     !.resv = reg.map[Top(c).scheme],
                                     !.ok = Exists(reg.map, Top(c).scheme)])

\* Resolve: registryLock.Unlock(); if !ok { return nil, fmt.Errorf(...) };
\* return resv(ctx, u)
ResolveCall(c) ==
    /\ At(c, "Resolve", "unlock")
    /\ LET r == [reg EXCEPT !.holder = ResolveUnlocks(@)] IN
       reg' = IF ~Top(c).ok
              THEN RegFinish(r, c, "unknown")
              ELSE RegPush([r EXCEPT !.g[c].ran = @ + 1], c, "call",
                           Frame("resolver", Top(c).scheme, Top(c).resv, reg.g[c].ran + 1))

\* the resolver runs, for as long as it takes
ResolverBody(c) ==
    /\ At(c, "resolver", "body")
    /\ LET resv == Top(c).resv IN
       reg' = CASE resv.does = "register" ->
                     RegPush(reg, c, "wait",
                             Frame("Register", resv.arg, InnerResolver(resv.by), reg.g[c].ran))
                [] resv.does = "resolve" ->
                     RegPush(reg, c, "wait",
                             Frame("Resolve", resv.arg, NoResolver, reg.g[c].ran))
                [] OTHER -> RegFinish(reg, c, "ok")

RegStep(c) ==
    \/ RegisterLocked(c)
    \/ RegisterUnlock(c)
    \/ ResolveLocked(c)
    \/ ResolveCall(c)
    \/ ResolverBody(c)

RegNext ==
    \E c \in Goroutines :
        \/ RegCall(c)
        \/ RegStep(c)

\* a step of a goroutine inside a call, which touches nothing but the registry
RegRun ==
    /\ \E c \in Goroutines : RegStep(c)
    /\ UNCHANGED <<kind, prefix, keyVars, storeVars, iterVars, raceVars, opVars, readVars, appVars, globVars, loopVars>>

\* while some goroutine inside a call can take a step, one of them is scheduled,
\* and a goroutine waiting in Lock gets the mutex once it is free
SpecReg ==
    /\ RegInit
    /\ [][RegNext /\ UNCHANGED <<kind, prefix, keyVars, storeVars, iterVars, raceVars, opVars, readVars, appVars, globVars, loopVars>>]_vars
    /\ WF_vars(RegRun)

\* the places of Register and Resolve between Lock and Unlock
Critical == {"unlock"}

\* C22: each scheme is written at most once and stays bound to its first
\* registrant; a Register of a bound scheme panics, and only such a Register does,
\* with the registry as it found it; whoever holds the lock is between Lock and
\* Unlock, so no goroutine that returned or panicked holds it; a Resolve finds a
\* scheme unknown only if it is unbound, and then returns having run no resolver.
C22_RegistryWriteOnce ==
    /\ \A s \in Schemes :
          /\ reg.writes[s] <= 1
          /\ reg.map[s] = reg.first[s]
          /\ (reg.writes[s] = 0) <=> (reg.map[s] = NoResolver)
    /\ reg.out.res = "panic" => reg.out.op = "Register" /\ reg.out.dup /\ reg.out.same
    /\ (reg.out.op = "Register" /\ reg.out.res = "ok") => ~reg.out.dup
    /\ reg.out.res = "unknown" => reg.out.op = "Resolve" /\ reg.out.ran = 0
    /\ \A c \in Goroutines :
          /\ reg.holder = c => Busy(c) /\ Top(c).f # "resolver" /\ Top(c).pc \in Critical
          /\ \A n \in 1..Len(reg.g[c].stack) :
                reg.g[c].stack[n].f = "resolver" =>
                    /\ n > 1
                    /\ reg.g[c].stack[n - 1].ok
                    /\ reg.g[c].stack[n].resv # NoResolver

\* a second Register of a scheme has panicked, the scheme is still bound to the
\* first registrant, and the lock is free for the goroutine waiting in Resolve
C22_Witness ==
    /\ reg.holder = 0
    /\ reg.out.c = 1 /\ reg.out.op = "Register" /\ reg.out.res = "panic"
    /\ reg.out.scheme = "file" /\ reg.out.depth = 1
    /\ reg.map["file"] = PlainResolver(2)
    /\ At(2, "Resolve", "lock")

\* the lock is not held wherever a resolver is running or awaited
ResolverRunsUnlocked ==
    \A c \in Goroutines :
        (Busy(c) /\ (Top(c).f = "resolver" \/ Top(c).pc = "call")) => reg.holder # c

\* C25: Resolve does not hold the registry lock while the resolver runs, so every
\* call of Register and Resolve comes to an end, also a Register or Resolve made
\* by a resolver and a Resolve made while another resolver is still running.
C25_ResolveRunsUnlocked ==
    /\ [] ResolverRunsUnlocked
    /\ \A c \in Goroutines : Busy(c) ~> ~Busy(c)

\* a resolver of goroutine 1 registered a scheme from within Resolve while the
\* resolver called by goroutine 2 was still running
C25_Witness ==
    /\ reg.out.c = 1 /\ reg.out.op = "Register" /\ reg.out.res = "ok"
    /\ reg.out.depth = 3
    /\ At(2, "resolver", "body")
    /\ reg.holder = 0

====
